---------------------------- MODULE Spec2Model ----------------------------
(***************************************************************************)
(* A model of the intro-zoom batch-key simulation of sf_tree_reporting     *)
(* (scripts/simulate_intro_query_batches.py): the Web-Mercator projection  *)
(* helpers, the tile range of a viewport, the cache key of a tile range    *)
(* and the served-set loop of simulate_batch_keys under its range-freezing *)
(* policies.                                                               *)
(*                                                                         *)
(* Number representation.  The code computes in binary floating point;    *)
(* the model computes in integers:                                         *)
(*   - a longitude is an integer number of 2^-28 turns (FullTurn units are *)
(*     360 degrees, HalfTurn units 180 degrees; a unit is about 1.34       *)
(*     micro-degrees);                                                     *)
(*   - a latitude is an integer number of micro-degrees;                   *)
(*   - a zoom is an integer number of tenths (18.5 is 185);                *)
(*   - a world-pixel coordinate is an integer number of pixels;            *)
(*   - the normalised Mercator ordinate (0 at +85.05..., 1 at -85.05...)   *)
(*     is an integer number of 2^-28 parts of the world height.            *)
(* Every product/quotient is computed exactly and floored, where the code  *)
(* rounds to the nearest float.  The transcendental Mercator functions are *)
(* tabulated from the code's formulas at fixed latitudes and interpolated  *)
(* linearly between them.                                                  *)
(***************************************************************************)
EXTENDS Integers, Sequences, FiniteSets, TLC

(***************************************************************************)
(* Scales of the integer representation.                                   *)
(***************************************************************************)
FullTurn == 2^28          \* longitude units in 360 degrees
HalfTurn == 2^27          \* longitude units in 180 degrees
MercDen == 2^28           \* Mercator units per world height
ZoomScale == 5 * 2        \* zoom tenths per zoom level
PowScale == 2^12          \* scale of the Pow2Tenth table

(***************************************************************************)
(* Program constants (simulate_intro_query_batches.py lines 27-35, 171).   *)
(***************************************************************************)
TILE_SIZE == 512
WEB_MERCATOR_MAX_LAT == 85051129      \* 85.05112878 degrees, in micro-degrees
MIN_DETAIL_ZOOM == 15                 \* "if z < 15: continue"
CHECKPOINTS == <<185, 176, 168, 160, 152, 143, 135>>

(***************************************************************************)
(* floor(a * b / d) for integers a, b >= 0 and d > 0, exact whenever       *)
(* b * d < 2^31 (the products below stay in range): with a = q*d + r,      *)
(* a*b/d = q*b + r*b/d.                                                    *)
(***************************************************************************)
FloorMulDiv(a, b, d) == (a \div d) * b + (((a % d) * b) \div d)

Max2(a, b) == IF a >= b THEN a ELSE b
Min2(a, b) == IF a <= b THEN a ELSE b

\* round half up, which Python's round() is not
RoundHalfUp(zm) == (2 * zm + ZoomScale) \div (2 * ZoomScale)

(***************************************************************************)
(* Python's round() on a zoom in tenths: round half to even.               *)
(***************************************************************************)
PyRound(zm) ==
    LET q == zm \div ZoomScale
        r == zm % ZoomScale
    IN  IF 2 * r < ZoomScale THEN q
        ELSE IF 2 * r > ZoomScale THEN q + 1
        ELSE IF q % 2 = 0 THEN q ELSE q + 1

(***************************************************************************)
(* 2^(k/10) * PowScale, rounded, for k = 0..9 (index k+1).                 *)
(***************************************************************************)
Pow2Tenth == <<4096, 4390, 4705, 5043, 5405, 5793, 6208, 6654, 7132, 7643>>

\* world = TILE_SIZE * (2**zoom) is, for a zoom zm in tenths from 3.0 up,
\* 2^28 * Pow2Tenth / WorldShift with WorldShift a power of two.
WorldShift(zm) ==
    MercDen \div ((TILE_SIZE * 2^(zm \div ZoomScale)) \div PowScale)

\* floor(u * world / 2^28): a normalised coordinate u (2^-28 units) in pixels.
ToWorld(u, zm) ==
    FloorMulDiv(u, Pow2Tenth[(zm % ZoomScale) + 1], WorldShift(zm))

\* floor(p * 2^28 / world): a pixel coordinate p as a normalised coordinate.
FromWorld(p, zm) ==
    FloorMulDiv(p, WorldShift(zm), Pow2Tenth[(zm % ZoomScale) + 1])

(***************************************************************************)
(* The Mercator ordinate of a latitude, tabulated from the code's formula  *)
(*   0.5 - log((1 + sin(lat)) / (1 - sin(lat))) / (4 * pi)                 *)
(* (equally (1 - log(tan(lat) + 1 / cos(lat)) / pi) / 2: the two agree at   *)
(* every knot), floored to Mercator units: <<latitude, ordinate>>.  The    *)
(* knots are dense around the intro centre, where views fall between them; *)
(* elsewhere the model uses the knots themselves.                          *)
(***************************************************************************)
MercKnots == <<
    <<-89000000, 336781563>>,
    <<-85051129, 268435456>>,
    <<-60000000, 190481895>>,
    <<0, 134217728>>,
    <<37700000, 103826545>>,
    <<37750000, 103779409>>,
    <<37760000, 103769978>>,
    <<37770000, 103760546>>,
    <<37780000, 103751112>>,
    <<37790000, 103741677>>,
    <<37800000, 103732241>>,
    <<37850000, 103685041>>,
    <<38000000, 103543249>>,
    <<60000000, 77953560>>,
    <<85051129, -1>>,
    <<89000000, -68346108>> >>

NKnots == Len(MercKnots)

clamp(v, lo, hi) == Max2(lo, Min2(hi, v))

\* The ordinate of latitude lat (micro-degrees): linear between the knots.
MercOfLat(lat) ==
    LET l == clamp(lat, MercKnots[1][1], MercKnots[NKnots][1])
        i == CHOOSE j \in 1..(NKnots - 1) :
                 /\ MercKnots[j][1] <= l
                 /\ (l < MercKnots[j + 1][1] \/ j = NKnots - 1)
        a == MercKnots[i]
        b == MercKnots[i + 1]
    IN  a[2] - FloorMulDiv(l - a[1], a[2] - b[2], b[1] - a[1])

\* The latitude of ordinate m: degrees(atan(sinh(pi - 2*pi*m))), the inverse
\* of MercOfLat on the same knots.
LatOfMerc(m) ==
    LET c == clamp(m, MercKnots[NKnots][2], MercKnots[1][2])
        i == CHOOSE j \in 1..(NKnots - 1) :
                 /\ MercKnots[j][2] >= c
                 /\ (c > MercKnots[j + 1][2] \/ j = NKnots - 1)
        a == MercKnots[i]
        b == MercKnots[i + 1]
    IN  a[1] + FloorMulDiv(a[2] - c, b[1] - a[1], a[2] - b[2])

(***************************************************************************)
(* Projection helpers.                                                     *)
(***************************************************************************)
\* x = ((lon + 180) / 360) * world; y = (0.5 - log(...) / (4 * pi)) * world
lonlat_to_world_px(lon, lat, zm) ==
    LET latc == clamp(lat, -WEB_MERCATOR_MAX_LAT, WEB_MERCATOR_MAX_LAT)
    IN  <<ToWorld(lon + HalfTurn, zm), ToWorld(MercOfLat(latc), zm)>>

\* world_px_to_lonlat without the "- 180.0" of line 72
WorldPxToLonLatNoOffset(x, y, zm) ==
    <<FromWorld(x, zm), LatOfMerc(FromWorld(y, zm))>>

\* lon = (x / world) * 360 - 180; lat = degrees(atan(sinh(pi - 2*pi*y/world)))
world_px_to_lonlat(x, y, zm) ==
    <<FromWorld(x, zm) - HalfTurn, LatOfMerc(FromWorld(y, zm))>>

\* <<west, east, north, south>>.  width_px / 2.0 may be half a pixel: the
\* corner is floored to a whole pixel.
approx_bounds(center_lng, center_lat, zm, width, height) ==
    LET c  == lonlat_to_world_px(center_lng, center_lat, zm)
        wn == world_px_to_lonlat((2 * c[1] - width) \div 2,
                                 (2 * c[2] - height) \div 2, zm)
        es == world_px_to_lonlat((2 * c[1] + width) \div 2,
                                 (2 * c[2] + height) \div 2, zm)
    IN  <<wn[1], es[1], wn[2], es[2]>>

\* floor(((lon + 180) / 360) * n), n = 2**z dividing FullTurn
lon_to_tile_x(lon, zt) ==
    (lon + HalfTurn) \div (FullTurn \div 2^zt)

\* floor(((1 - log(tan(lat) + 1 / cos(lat)) / pi) / 2) * n)
lat_to_tile_y(lat, zt) ==
    LET latc == clamp(lat, -WEB_MERCATOR_MAX_LAT, WEB_MERCATOR_MAX_LAT)
    IN  MercOfLat(latc) \div (MercDen \div 2^zt)

\* tile_range_for_view with the upper clamp at n instead of n - 1
TileRangeClampAtN(zt, west, east, north, south) ==
    LET n == 2^zt
    IN  [z     |-> zt,
         min_x |-> Max2(0, Min2(n, lon_to_tile_x(west, zt))),
         max_x |-> Max2(0, Min2(n, lon_to_tile_x(east, zt))),
         min_y |-> Max2(0, Min2(n, lat_to_tile_y(north, zt))),
         max_y |-> Max2(0, Min2(n, lat_to_tile_y(south, zt)))]

tile_range_for_view(zt, west, east, north, south) ==
    LET n == 2^zt
    IN  [z     |-> zt,
         min_x |-> Max2(0, Min2(n - 1, lon_to_tile_x(west, zt))),
         max_x |-> Max2(0, Min2(n - 1, lon_to_tile_x(east, zt))),
         min_y |-> Max2(0, Min2(n - 1, lat_to_tile_y(north, zt))),
         max_y |-> Max2(0, Min2(n - 1, lat_to_tile_y(south, zt)))]

\* TileRange.key: f"{revision}:{z}:{min_x}-{max_x}:{min_y}-{max_y}"
\* a key without the "-" between the two ends of an axis
TileRangeKeyNoDash(r, rev) ==
    ToString(rev) \o ":" \o ToString(r.z) \o ":" \o ToString(r.min_x)
        \o ToString(r.max_x) \o ":" \o ToString(r.min_y) \o ToString(r.max_y)

\* a key that leaves the revision out
TileRangeKeyNoRevision(r, rev) ==
    ToString(r.z) \o ":" \o ToString(r.min_x) \o "-" \o ToString(r.max_x)
        \o ":" \o ToString(r.min_y) \o "-" \o ToString(r.max_y)

TileRangeKey(r, rev) ==
    ToString(rev) \o ":" \o ToString(r.z) \o ":" \o
    ToString(r.min_x) \o "-" \o ToString(r.max_x) \o ":" \o
    ToString(r.min_y) \o "-" \o ToString(r.max_y)

(***************************************************************************)
(* generate_intro_frames.  A segment i (0-based, from CHECKPOINTS[i] to     *)
(* CHECKPOINTS[i+1]) yields its frame f = 0 (the segment's start zoom at   *)
(* the previous checkpoint's position), then frames f >= 1 strictly inside *)
(* the segment in order of progress, then the appended checkpoint frame.   *)
(* How many inner frames there are depends on fps; the model takes any     *)
(* increasing selection of the samples below, MaxFrames of them at most    *)
(* over the whole run.                                                     *)
(***************************************************************************)
MaxFrames == 3

NSegments == Len(CHECKPOINTS) - 1

\* <<lng, lat>> of the spiral at global_t = i / segments, i = 0..6 (index i+1).
CheckpointCenters == <<
    <<-91281389, 37774900>>,
    <<-91282049, 37775766>>,
    <<-91282898, 37775593>>,
    <<-91283087, 37774900>>,
    <<-91282709, 37774554>>,
    <<-91282426, 37774727>>,
    <<-91282521, 37774900>> >>

\* Inner frames <<zoom, lng, lat>> of each segment (index i+1), in frame order.
FrameSamples == <<
    << <<182, -91281516, 37775288>>, <<178, -91281845, 37775660>> >>,
    << <<175, -91282169, 37775801>>, <<171, -91282628, 37775768>> >>,
    << <<165, -91283063, 37775341>>, <<162, -91283113, 37775068>> >>,
    << <<157, -91282978, 37774699>>, <<154, -91282821, 37774582>> >>,
    << <<149, -91282575, 37774572>>, <<145, -91282455, 37774666>> >>,
    << <<140, -91282427, 37774824>>, <<137, -91282475, 37774887>> >> >>

\* --width / --height: the default viewport, a zero-area one, a negative one.
ViewportSizes == { <<1512, 982>>, <<0, 0>>, <<-1512, 982>> }

(***************************************************************************)
(* The range policies: the two flags of simulate_batch_keys.  main() runs  *)
(* the simulation once per policy on the same frames; the model steps the  *)
(* runs together, one frame at a time, each on its own copy of the state.  *)
(***************************************************************************)
Policies == [per_stage : BOOLEAN, per_zoom : BOOLEAN]
\* the per-frame run called with the per-zoom flag set
PerFrameFlagSet == [per_stage |-> FALSE, per_zoom |-> TRUE]

PerFrame    == [per_stage |-> FALSE, per_zoom |-> FALSE]
StageLocked == [per_stage |-> TRUE,  per_zoom |-> FALSE]
ZoomLocked  == [per_stage |-> FALSE, per_zoom |-> TRUE]
BothLocked  == [per_stage |-> TRUE,  per_zoom |-> TRUE]

NoRange == [z |-> 0, min_x |-> 0, max_x |-> 0, min_y |-> 0, max_y |-> 0]
NoResult == [total |-> -1, by_zoom |-> <<>>]

VARIABLES
    width_px, height_px,          \* parameters of simulate_batch_keys
    frames,                       \* line 165, when the frames are given
                                  \* rather than generated as the run goes
    revision,                     \* line 160
    pc,                           \* "frames", "prefetch", "return", "done"
    stage_idx,                    \* segment being generated / replayed
    seg_pos,                      \* -1: frame 0 pending; k: k samples passed
    nframes,                      \* inner frames taken so far
    cp_idx,                       \* prefetch loop: index into CHECKPOINTS
    zoom, z,                      \* loop locals (the same for every policy)
    tr, key,                      \* loop locals, per policy
    seen_keys, keys_by_zoom, count_by_zoom,
    frozen_range_by_stage_zoom, frozen_range_by_zoom,
    fresh,                        \* outcome of "key not in seen_keys", per policy
    served,                       \* history: the <<revision, range>> pairs a
                                  \* query was emitted for, per policy
    result,                       \* the returned dict, per policy
    fn_in, fn_out,                \* argument and result of a function applied
                                  \* on its own
    handler, lock, nevents,       \* events arriving from several producers
    trees, species_enrichment,    \* the tables build() loads (lines 26-44)
    trees_fast,                   \* the table of lines 51-125
    agg_cache,                    \* zoom -> the table agg_z{z}_cache
    z15_tile_stats,               \* the table of benchmark_lod_query.py:193
    stdout,                       \* what build() has printed
    raw_json_exists,              \* RAW_JSON.exists()
    species_json_exists,          \* SPECIES_JSON.exists()
    cache_dir_made,               \* this run has executed the mkdir of line 21
    files,                        \* output file -> "missing", "stale" (from an
                                  \* earlier run) or "new" (written by this run)
    step,                         \* the next statement of build() to run
    outcome,                      \* "running", "returned", "SystemExit", "raised"
    baseline_rows,                \* result of the baseline query of main()
    spatial,                      \* what LOAD / INSTALL spatial do on this machine
    spatial_ok,                   \* line 222
    enrichment_parquet,           \* the rows of the file at ENRICHMENT_PARQUET
    tree_info,                    \* what get_all_species() returns
    limit,                        \* args.limit
    already_enriched, complete_enriched,
    to_process, q_idx,            \* the list of line 973 and the loop's position
    new_rows,
    existing,                     \* None, or the table read at line 1028
    merged,
    emitted_to                    \* "", "file" (line 1097) or "stdout" (1100)

vars == <<width_px, height_px, frames, revision, pc, stage_idx, seg_pos, nframes,
          cp_idx, zoom, z, tr, key, seen_keys, keys_by_zoom, count_by_zoom,
          frozen_range_by_stage_zoom, frozen_range_by_zoom, fresh, served,
          result, fn_in, fn_out, handler, lock, nevents, trees,
          species_enrichment, trees_fast, agg_cache, z15_tile_stats, stdout,
          raw_json_exists, species_json_exists, cache_dir_made, files, step,
          outcome, baseline_rows, spatial, spatial_ok, enrichment_parquet,
          tree_info, limit, already_enriched, complete_enriched, to_process,
          q_idx, new_rows, existing, merged, emitted_to>>

simVars == <<tr, key, seen_keys, keys_by_zoom, count_by_zoom,
             frozen_range_by_stage_zoom, frozen_range_by_zoom, fresh, served>>

paramVars == <<width_px, height_px, frames>>
fnVars == <<fn_in, fn_out>>
concVars == <<handler, lock, nevents>>
fileVars == <<raw_json_exists, species_json_exists, cache_dir_made, files,
              step, outcome>>
benchVars == <<baseline_rows, spatial, spatial_ok>>
mergeVars == <<enrichment_parquet, tree_info, limit, already_enriched,
               complete_enriched, to_process, q_idx, new_rows, existing,
               merged, emitted_to>>
buildVars == <<trees, species_enrichment, trees_fast, agg_cache,
               z15_tile_stats, stdout, fileVars, benchVars, mergeVars>>

Producers == {"camera", "gesture"}
Idle == [pc |-> "idle", z |-> 0, key |-> "", miss |-> FALSE]

\* dict helpers
Put(m, k, v) == [x \in (DOMAIN m) \cup {k} |-> IF x = k THEN v ELSE m[x]]
Get(m, k, d) == IF k \in DOMAIN m THEN m[k] ELSE d

\* The state at line 168, before the first frame.
InitSim ==
    /\ revision = 1
    /\ stage_idx = 0
    /\ seg_pos = -1
    /\ nframes = 0
    /\ cp_idx = 2
    /\ zoom = 0
    /\ z = 0
    /\ tr = [p \in Policies |-> NoRange]
    /\ key = [p \in Policies |-> ""]
    /\ seen_keys = [p \in Policies |-> {}]
    /\ keys_by_zoom = [p \in Policies |-> <<>>]
    /\ count_by_zoom = [p \in Policies |-> <<>>]
    /\ frozen_range_by_stage_zoom = [p \in Policies |-> <<>>]
    /\ frozen_range_by_zoom = [p \in Policies |-> <<>>]
    /\ fresh = [p \in Policies |-> FALSE]
    /\ served = [p \in Policies |-> {}]
    /\ result = [p \in Policies |-> NoResult]

NoBounds == [z |-> 0, west |-> 0, east |-> 0, north |-> 0, south |-> 0]

\* tree_enrichment.py not run.
InitNoMerge ==
    /\ enrichment_parquet = <<>>
    /\ tree_info = <<>>
    /\ limit = <<>>
    /\ already_enriched = {}
    /\ complete_enriched = {}
    /\ to_process = <<>>
    /\ q_idx = 1
    /\ new_rows = <<>>
    /\ existing = <<>>
    /\ merged = <<>>
    /\ emitted_to = ""

\* No table loaded, nothing built, nothing printed.
InitNoBuild ==
    /\ trees = <<>>
    /\ species_enrichment = <<>>
    /\ trees_fast = <<>>
    /\ agg_cache = <<>>
    /\ z15_tile_stats = {}
    /\ stdout = <<>>
    /\ raw_json_exists = TRUE
    /\ species_json_exists = FALSE
    /\ cache_dir_made = FALSE
    /\ files = <<>>
    /\ step = 0
    /\ outcome = "running"
    /\ baseline_rows = {}
    /\ spatial = "loaded"
    /\ spatial_ok = TRUE
    /\ InitNoMerge

InitOther ==
    /\ frames = <<>>
    /\ fn_in = NoBounds
    /\ fn_out = NoRange
    /\ handler = [q \in Producers |-> Idle]
    /\ lock = "none"
    /\ nevents = 0
    /\ InitNoBuild

Init ==
    /\ \E vp \in ViewportSizes : width_px = vp[1] /\ height_px = vp[2]
    /\ pc = "frames"
    /\ InitSim
    /\ InitOther

(***************************************************************************)
(* The body of the frame loop (lines 169-191), per policy.                 *)
(***************************************************************************)
\* lines 174-175 / 206-207: the range of a view <<zoom, lng, lat>> in a
\* viewport <<width_px, height_px>>
RangeOfView(v, vp) ==
    LET b == approx_bounds(v[2], v[3], v[1], vp[1], vp[2])
    IN  tile_range_for_view(PyRound(v[1]), b[1], b[2], b[3], b[4])

\* A camera held at one zoom and latitude and moved east or west in small
\* and in tile-sized steps, ScenarioFrames frames long.
ScenarioFrames == 6
ScenarioZoom == 16 * ZoomScale
ScenarioStart == CheckpointCenters[4]
ScenarioMoves == {2, FullTurn \div 2^16, -(FullTurn \div 2^16)}
ScenarioViews ==
    {<<ScenarioZoom,
       ScenarioStart[1] + 2 * a + (FullTurn \div 2^16) * b,
       ScenarioStart[2]>> :
         a \in 0..(ScenarioFrames - 1),
         b \in (1 - ScenarioFrames)..(ScenarioFrames - 1)}

\* Every view the frames and the prefetch calls take.
Views ==
    {<<CHECKPOINTS[i], CheckpointCenters[i][1], CheckpointCenters[i][2]>> :
         i \in 1..Len(CHECKPOINTS)}
    \cup UNION {{FrameSamples[i][k] : k \in 1..Len(FrameSamples[i])} :
                   i \in 1..NSegments}
    \cup ScenarioViews

\* RangeOfView over the views of detail zoom, computed once: the set of
\* <<view, viewport, range>>.
ViewRanges ==
    {<<v, vp, RangeOfView(v, vp)>> :
        v \in {u \in Views : PyRound(u[1]) >= MIN_DETAIL_ZOOM}, vp \in ViewportSizes}

\* The range of the view in the run's viewport, looked up in ViewRanges.
ViewRange(zr, lng, lat, zm) ==
    (CHOOSE e \in ViewRanges :
         e[1] = <<zm, lng, lat>> /\ e[2] = <<width_px, height_px>>)[3]

\* Variants of the policy code with one line dropped; the properties below
\* are checked against them as well, where each has to fail.
FreezeByZoomOverwrite(p, fz, zr, t) ==      \* without "if z not in ..." (177)
    IF p.per_zoom THEN Put(fz, zr, t) ELSE fz
FreezeByStageOverwrite(p, fs, st, zr, t) == \* without "if stage_key not in ..." (183)
    IF ~p.per_zoom /\ p.per_stage THEN Put(fs, <<st, zr>>, t) ELSE fs
FreezeByStageIf(p, fs, st, zr, t) ==        \* line 181 as "if", not "elif"
    IF p.per_stage /\ <<st, zr>> \notin DOMAIN fs THEN Put(fs, <<st, zr>>, t) ELSE fs
FrameRangeUnfrozen(p, fz, fs, st, zr, t) == t   \* without lines 180 and 185
PrefetchRangeUnfrozen(p, fz, fs, st, zr, t) == t \* without lines 209-214
IsNewKeyAlways(seen, k) == TRUE             \* without the test of line 188
AddKeyReplace(seen, k) == {k}               \* "seen_keys = {key}" (189)

\* lines 177-179: the per-zoom frozen map after the frame
FreezeByZoom(p, fz, zr, t) ==
    IF p.per_zoom /\ zr \notin DOMAIN fz THEN Put(fz, zr, t) ELSE fz

\* lines 181-184: the per-stage frozen map after the frame
FreezeByStage(p, fs, st, zr, t) ==
    IF ~p.per_zoom /\ p.per_stage /\ <<st, zr>> \notin DOMAIN fs
    THEN Put(fs, <<st, zr>>, t) ELSE fs

\* lines 177-185: the range the frame is keyed by
FrameRange(p, fz, fs, st, zr, t) ==
    IF p.per_zoom THEN FreezeByZoom(p, fz, zr, t)[zr]
    ELSE IF p.per_stage THEN FreezeByStage(p, fs, st, zr, t)[<<st, zr>>]
    ELSE t

\* lines 209-214: the range a prefetch is keyed by
PrefetchRange(p, fz, fs, st, zr, t) ==
    IF p.per_zoom THEN Get(fz, zr, t)
    ELSE IF p.per_stage THEN Get(fs, <<st, zr>>, t)
    ELSE t

\* line 188 / 217: "if key not in seen_keys"
IsNewKey(seen, k) == k \notin seen

\* line 189 / 218: "seen_keys.add(key)"
AddKey(seen, k) == seen \cup {k}

\* lines 187-191 / 216-220, for the ranges rng[p] at rounded zoom zr
Dedupe(zr, rng) ==
    /\ tr' = rng
    /\ key' = [p \in Policies |-> TileRangeKey(tr'[p], revision)]
    /\ fresh' = [p \in Policies |-> IsNewKey(seen_keys[p], key'[p])]
    /\ seen_keys' = [p \in Policies |->
           IF fresh'[p] THEN AddKey(seen_keys[p], key'[p]) ELSE seen_keys[p]]
    /\ keys_by_zoom' = [p \in Policies |->
           IF fresh'[p]
           THEN Put(keys_by_zoom[p], zr,
                    Get(keys_by_zoom[p], zr, {}) \cup {key'[p]})
           ELSE keys_by_zoom[p]]
    /\ count_by_zoom' = [p \in Policies |->
           IF fresh'[p]
           THEN Put(count_by_zoom[p], zr, Get(count_by_zoom[p], zr, 0) + 1)
           ELSE count_by_zoom[p]]
    /\ served' = [p \in Policies |->
           IF fresh'[p] THEN served[p] \cup {<<revision, tr'[p]>>} ELSE served[p]]

\* One iteration of "for zoom, lng, lat, stage_idx in frames" (lines 169-191).
HandleFrame(zm, lng, lat, st) ==
    LET zr == PyRound(zm)
    IN  /\ zoom' = zm
        /\ z' = zr
        /\ IF zr < MIN_DETAIL_ZOOM
           THEN UNCHANGED simVars
           ELSE LET t == ViewRange(zr, lng, lat, zm)
                IN  /\ frozen_range_by_zoom' = [p \in Policies |->
                           FreezeByZoom(p, frozen_range_by_zoom[p], zr, t)]
                    /\ frozen_range_by_stage_zoom' = [p \in Policies |->
                           FreezeByStage(p, frozen_range_by_stage_zoom[p], st, zr, t)]
                    /\ Dedupe(zr, [p \in Policies |->
                           FrameRange(p, frozen_range_by_zoom[p],
                                      frozen_range_by_stage_zoom[p], st, zr, t)])

\* One iteration of "for cp in CHECKPOINTS[1:]" (lines 194-220).
HandlePrefetch(i) ==
    LET cp == CHECKPOINTS[i]
        zr == PyRound(cp)
        c  == CheckpointCenters[i]
    IN  /\ z' = zr
        /\ IF zr < MIN_DETAIL_ZOOM
           THEN UNCHANGED <<zoom, simVars>>
           ELSE LET t == ViewRange(zr, c[1], c[2], cp)
                IN  /\ zoom' = cp
                    /\ UNCHANGED <<frozen_range_by_zoom, frozen_range_by_stage_zoom>>
                    /\ Dedupe(zr, [p \in Policies |->
                           PrefetchRange(p, frozen_range_by_zoom[p],
                                         frozen_range_by_stage_zoom[p],
                                         i - 2, zr, t)])

(***************************************************************************)
(* The actions.                                                            *)
(***************************************************************************)
\* Frame f = 0 of the segment: (from_zoom, position at from_t, i).
FirstFrame ==
    /\ pc = "frames"
    /\ seg_pos = -1
    /\ LET c == CheckpointCenters[stage_idx + 1]
       IN  HandleFrame(CHECKPOINTS[stage_idx + 1], c[1], c[2], stage_idx)
    /\ seg_pos' = 0
    /\ UNCHANGED <<buildVars, paramVars, revision, pc, stage_idx, nframes, cp_idx, result,
                   fnVars, concVars>>

\* A frame f >= 1 inside the segment.
InnerFrame ==
    /\ pc = "frames"
    /\ seg_pos >= 0
    /\ nframes < MaxFrames
    /\ \E k \in (seg_pos + 1)..Len(FrameSamples[stage_idx + 1]) :
          LET s == FrameSamples[stage_idx + 1][k]
          IN  /\ HandleFrame(s[1], s[2], s[3], stage_idx)
              /\ seg_pos' = k
    /\ nframes' = nframes + 1
    /\ UNCHANGED <<buildVars, paramVars, revision, pc, stage_idx, cp_idx, result,
                   fnVars, concVars>>

\* The appended segment-end frame: (to_zoom, position at to_t, i).
CheckpointFrame ==
    /\ pc = "frames"
    /\ seg_pos >= 0
    /\ LET c == CheckpointCenters[stage_idx + 2]
       IN  HandleFrame(CHECKPOINTS[stage_idx + 2], c[1], c[2], stage_idx)
    /\ IF stage_idx + 1 < NSegments
       THEN /\ stage_idx' = stage_idx + 1
            /\ seg_pos' = -1
            /\ pc' = pc
       ELSE /\ pc' = "prefetch"
            /\ UNCHANGED <<stage_idx, seg_pos>>
    /\ UNCHANGED <<buildVars, paramVars, revision, nframes, cp_idx, result,
                   fnVars, concVars>>

\* A stage-boundary prefetch call.
Prefetch ==
    /\ pc = "prefetch"
    /\ HandlePrefetch(cp_idx)
    /\ IF cp_idx < Len(CHECKPOINTS)
       THEN cp_idx' = cp_idx + 1 /\ pc' = pc
       ELSE cp_idx' = cp_idx /\ pc' = "return"
    /\ UNCHANGED <<buildVars, paramVars, revision, stage_idx, seg_pos, nframes, result,
                   fnVars, concVars>>

RECURSIVE SumValues(_)
SumValues(m) ==
    IF DOMAIN m = {} THEN 0
    ELSE LET k == CHOOSE x \in DOMAIN m : TRUE
         IN  m[k] + SumValues([x \in (DOMAIN m) \ {k} |-> m[x]])

\* lines 222-230
Return ==
    /\ pc = "return"
    /\ result' = [p \in Policies |->
           [total |-> SumValues(count_by_zoom[p]), by_zoom |-> count_by_zoom[p]]]
    /\ pc' = "done"
    /\ UNCHANGED <<buildVars, paramVars, revision, stage_idx, seg_pos, nframes, cp_idx,
                   zoom, z, simVars, fnVars, concVars>>

Next == FirstFrame \/ InnerFrame \/ CheckpointFrame \/ Prefetch \/ Return

Spec == Init /\ [][Next]_vars

(***************************************************************************)
(* Properties of simulate_batch_keys.                                      *)
(***************************************************************************)
loopVars == <<pc, stage_idx, seg_pos, nframes, cp_idx>>

\* A step that runs one iteration of the frame loop or of the prefetch loop.
EventStep == pc \in {"frames", "prefetch"} /\ loopVars' # loopVars

Total(p) == SumValues(count_by_zoom[p])

\* C1: an event whose key is not in the served set adds the key and counts
\* one query; an event whose key is already in the served set changes
\* neither the set nor the count.  So each distinct key is queried once.
C1_DedupByKey ==
    [][EventStep /\ z' >= MIN_DETAIL_ZOOM =>
         \A p \in Policies :
            IF key'[p] \in seen_keys[p]
            THEN seen_keys'[p] = seen_keys[p] /\ Total(p)' = Total(p)
            ELSE /\ seen_keys'[p] = seen_keys[p] \cup {key'[p]}
                 /\ Total(p)' = Total(p) + 1]_vars

\* A frame has just repeated a key that was served before.
C1_Witness ==
    /\ width_px > 0 /\ height_px > 0
    /\ pc = "frames"
    /\ z >= MIN_DETAIL_ZOOM
    /\ ~fresh[PerFrame]
    /\ key[PerFrame] \in seen_keys[PerFrame]
    /\ Cardinality(seen_keys[PerFrame]) >= 2
    /\ Total(PerFrame) = Cardinality(seen_keys[PerFrame])

\* C2: on the same frames, at every point of the run (the prefetch pass
\* included), zoom-locked has emitted no more queries than stage-locked,
\* and stage-locked no more than per-frame.
C2_PolicyOrdering ==
    /\ Total(ZoomLocked) <= Total(StageLocked)
    /\ Total(StageLocked) <= Total(PerFrame)

\* A finished run in which the three totals differ.
C2_Witness ==
    /\ width_px > 0 /\ height_px > 0
    /\ pc = "done"
    /\ result[ZoomLocked].total >= 1
    /\ result[ZoomLocked].total < result[StageLocked].total
    /\ result[StageLocked].total < result[PerFrame].total

\* C4: an event with a non-positive width, height or zoom emits no query and
\* leaves the served set and the frozen maps as they were.
C4_DegenerateRejected ==
    [][EventStep /\ (width_px <= 0 \/ height_px <= 0 \/ zoom' <= 0) =>
         UNCHANGED <<seen_keys, keys_by_zoom, count_by_zoom,
                     frozen_range_by_stage_zoom, frozen_range_by_zoom>>]_vars

\* C5: an event whose zoom rounds (half to even) below 15, that is, a zoom
\* of 14.5 or less, changes nothing, in the frame loop and in the prefetch
\* loop.
C5_BelowMinZoomNoOp ==
    [][EventStep /\ (IF pc = "frames" THEN zoom' ELSE CHECKPOINTS[cp_idx]) <= 145 =>
         UNCHANGED <<seen_keys, keys_by_zoom, count_by_zoom, served,
                     frozen_range_by_stage_zoom, frozen_range_by_zoom>>]_vars

\* The frame at zoom 14.5 was skipped after queries had been emitted.
C5_Witness ==
    /\ pc = "frames"
    /\ zoom = 145
    /\ z < MIN_DETAIL_ZOOM
    /\ width_px > 0
    /\ Total(PerFrame) >= 1
    /\ 14 \notin DOMAIN count_by_zoom[PerFrame]

\* C6: under the zoom-locked policy the range of an integer zoom is set by
\* the first event at that zoom and never changes, every event is keyed by
\* it, and no integer zoom has more than one query.
C6_ZoomLocked ==
    [][/\ \A zz \in DOMAIN frozen_range_by_zoom[ZoomLocked] :
             /\ zz \in DOMAIN frozen_range_by_zoom'[ZoomLocked]
             /\ frozen_range_by_zoom'[ZoomLocked][zz] =
                    frozen_range_by_zoom[ZoomLocked][zz]
       /\ EventStep /\ z' >= MIN_DETAIL_ZOOM =>
             /\ z' \in DOMAIN frozen_range_by_zoom'[ZoomLocked]
             /\ tr'[ZoomLocked] = frozen_range_by_zoom'[ZoomLocked][z']
       /\ \A zz \in DOMAIN count_by_zoom'[ZoomLocked] :
             count_by_zoom'[ZoomLocked][zz] <= 1]_vars

\* A later view at zoom 16 with another range of its own was keyed by the
\* range frozen at the first one.
C6_Witness ==
    /\ width_px > 0 /\ height_px > 0
    /\ pc = "frames"
    /\ z >= MIN_DETAIL_ZOOM
    /\ tr[ZoomLocked] # tr[PerFrame]
    /\ tr[ZoomLocked] = frozen_range_by_zoom[ZoomLocked][z]
    /\ ~fresh[ZoomLocked]
    /\ fresh[PerFrame]
    /\ count_by_zoom[ZoomLocked][z] = 1

\* The keys of the ranges a per-stage frozen map holds.
StageKeys(fs) == {TileRangeKey(fs[k], revision) : k \in DOMAIN fs}

\* C7: under the stage-locked policy the range of a (stage, zoom) pair is
\* set by the first event of the pair and never changes, every frame is
\* keyed by the range of its pair, and every query is for the range of a
\* pair: one query per pair at most.
C7_StageLocked ==
    [][/\ \A sk \in DOMAIN frozen_range_by_stage_zoom[StageLocked] :
             /\ sk \in DOMAIN frozen_range_by_stage_zoom'[StageLocked]
             /\ frozen_range_by_stage_zoom'[StageLocked][sk] =
                    frozen_range_by_stage_zoom[StageLocked][sk]
       /\ EventStep /\ pc = "frames" /\ z' >= MIN_DETAIL_ZOOM =>
             /\ <<stage_idx, z'>> \in DOMAIN frozen_range_by_stage_zoom'[StageLocked]
             /\ tr'[StageLocked] =
                    frozen_range_by_stage_zoom'[StageLocked][<<stage_idx, z'>>]
       /\ seen_keys'[StageLocked] \subseteq
             StageKeys(frozen_range_by_stage_zoom'[StageLocked])
       /\ Total(StageLocked)' <=
             Cardinality(DOMAIN frozen_range_by_stage_zoom'[StageLocked])]_vars

\* Within one stage a later frame at the same zoom, with another range of
\* its own, was keyed by the range of the stage's first frame.
C7_Witness ==
    /\ width_px > 0 /\ height_px > 0
    /\ pc = "frames"
    /\ z >= MIN_DETAIL_ZOOM
    /\ seg_pos >= 1
    /\ tr[StageLocked] # tr[PerFrame]
    /\ tr[StageLocked] = frozen_range_by_stage_zoom[StageLocked][<<stage_idx, z>>]
    /\ ~fresh[StageLocked]
    /\ fresh[PerFrame]

\* C8: the served set only grows: no step removes a key from it.
C8_AppendOnly ==
    [][\A p \in Policies : seen_keys[p] \subseteq seen_keys'[p]]_vars

\* The served set has grown over several events and still holds the first
\* key.
C8_Witness ==
    /\ width_px > 0 /\ height_px > 0
    /\ pc = "done"
    /\ Cardinality(seen_keys[PerFrame]) >= 4
    /\ TileRangeKey(frozen_range_by_zoom[ZoomLocked][18], 1) \in seen_keys[PerFrame]

(***************************************************************************)
(* tile_range_for_view on its own, on bounds inside the world, on its      *)
(* edges and outside it.                                                   *)
(***************************************************************************)
RangeZooms == {0, 1, MIN_DETAIL_ZOOM, 22}
RangeLons == {-HalfTurn - 4096, -HalfTurn, CheckpointCenters[1][1],
              HalfTurn - 1, HalfTurn, HalfTurn + 4096}
RangeLats == {MercKnots[1][1], -WEB_MERCATOR_MAX_LAT, 0, CheckpointCenters[1][2],
              WEB_MERCATOR_MAX_LAT, MercKnots[NKnots][1]}

InitRange ==
    /\ width_px = 1512 /\ height_px = 982
    /\ InitSim
    /\ pc = "call"
    /\ frames = <<>>
    /\ fn_in \in [z : RangeZooms, west : RangeLons, east : RangeLons,
                   north : RangeLats, south : RangeLats]
    /\ fn_out = NoRange
    /\ handler = [q \in Producers |-> Idle]
    /\ lock = "none"
    /\ nevents = 0
    /\ InitNoBuild

CallTileRange ==
    /\ pc = "call"
    /\ fn_out' = tile_range_for_view(fn_in.z, fn_in.west, fn_in.east,
                                     fn_in.north, fn_in.south)
    /\ pc' = "returned"
    /\ UNCHANGED <<buildVars, paramVars, revision, stage_idx, seg_pos, nframes, cp_idx,
                   zoom, z, simVars, result, fn_in, concVars>>

SpecRange == InitRange /\ [][CallTileRange]_vars

\* C10: whatever the bounds, each of min_x, max_x, min_y, max_y of the range
\* tile_range_for_view returns for zoom z lies in 0 .. 2^z - 1.
C10_RangeWithinGrid ==
    pc = "returned" =>
        /\ fn_out.z = fn_in.z
        /\ \A v \in {fn_out.min_x, fn_out.max_x, fn_out.min_y, fn_out.max_y} :
              0 <= v /\ v <= 2^(fn_in.z) - 1

\* Bounds outside the world on all four sides came back as the whole grid.
C10_Witness ==
    /\ pc = "returned"
    /\ fn_in.z = MIN_DETAIL_ZOOM
    /\ fn_in.west < -HalfTurn /\ fn_in.east > HalfTurn
    /\ fn_in.north > WEB_MERCATOR_MAX_LAT /\ fn_in.south < -WEB_MERCATOR_MAX_LAT
    /\ fn_out.min_x = 0 /\ fn_out.max_x = 2^MIN_DETAIL_ZOOM - 1
    /\ fn_out.min_y = 0 /\ fn_out.max_y = 2^MIN_DETAIL_ZOOM - 1

(***************************************************************************)
(* A revision bump.  simulate_batch_keys keeps revision at 1 (line 160);   *)
(* the coalescer it simulates (useDuckDB.ts) raises the revision when the  *)
(* dataset changes.  The bump is taken from the specification: it changes  *)
(* the revision and nothing else.  Here the dataset changes between two    *)
(* segments of the intro or between two prefetch calls; the first frame of *)
(* a segment repeats the view of the frame before it, and a prefetch       *)
(* repeats the view of a checkpoint frame.                                 *)
(***************************************************************************)
MaxRevision == 2

BumpRevision ==
    /\ (pc = "frames" /\ seg_pos = -1) \/ pc = "prefetch"
    /\ revision < MaxRevision
    /\ revision' = revision + 1
    /\ UNCHANGED <<buildVars, paramVars, loopVars, zoom, z, simVars, result, fnVars,
                   concVars>>

InitRev ==
    /\ width_px = 1512 /\ height_px = 982
    /\ pc = "frames"
    /\ InitSim
    /\ InitOther

NextRev == Next \/ BumpRevision

SpecRev == InitRev /\ [][NextRev]_vars

\* C3: an event emits a query exactly when no query was emitted for its
\* range in the current revision, whatever was served in earlier revisions:
\* after a bump the first event of a range emits one query, later ones none.
C3_RevisionInvalidation ==
    [][EventStep /\ z' >= MIN_DETAIL_ZOOM =>
         \A p \in Policies :
            IF <<revision, tr'[p]>> \in served[p]
            THEN Total(p)' = Total(p) /\ seen_keys'[p] = seen_keys[p]
            ELSE Total(p)' = Total(p) + 1 /\ key'[p] \in seen_keys'[p]]_vars

\* A range served in revision 1 was queried once more in revision 2, and a
\* later event of the same range in revision 2 emitted nothing.
C3_Witness ==
    /\ revision = 2
    /\ z >= MIN_DETAIL_ZOOM
    /\ <<1, tr[PerFrame]>> \in served[PerFrame]
    /\ <<2, tr[PerFrame]>> \in served[PerFrame]
    /\ ~fresh[PerFrame]
    /\ TileRangeKey(tr[PerFrame], 1) \in seen_keys[PerFrame]
    /\ TileRangeKey(tr[PerFrame], 2) \in seen_keys[PerFrame]

(***************************************************************************)
(* Events from several producers.  simulate_batch_keys handles its events  *)
(* in one loop; the specification lets events come from more than one      *)
(* producer and requires a serialisation point around the served set.      *)
(* Producers and lock are taken from the specification; what a handler     *)
(* does with an event is the loop body: lines 170-175 and 187 compute the  *)
(* key (per-frame policy), line 188 tests it, lines 189-191 insert it.     *)
(***************************************************************************)
MaxEvents == 5

\* The views the producers send: the first two checkpoints, and the last,
\* which is below detail zoom.
ProducerViews == {1, 2, Len(CHECKPOINTS)}

InitConc ==
    /\ width_px = 1512 /\ height_px = 982
    /\ pc = "serve"
    /\ InitSim
    /\ InitOther

\* no serialisation point
LockIgnored(q) == TRUE

\* The serialisation point: one handler at a time between test and insert.
LockFree(q) == lock = "none"

Arrive(q) ==
    /\ pc = "serve"
    /\ handler[q].pc = "idle"
    /\ nevents < MaxEvents
    /\ nevents' = nevents + 1
    /\ \E i \in ProducerViews :
          LET cp == CHECKPOINTS[i]
              zr == PyRound(cp)
              c  == CheckpointCenters[i]
          IN  IF zr < MIN_DETAIL_ZOOM
              THEN handler' = handler
              ELSE handler' = [handler EXCEPT ![q] =
                       [pc |-> "waiting", z |-> zr, miss |-> FALSE,
                        key |-> TileRangeKey(ViewRange(zr, c[1], c[2], cp),
                                             revision)]]
    /\ UNCHANGED <<buildVars, paramVars, revision, loopVars, zoom, z, simVars, result,
                   fnVars, lock>>

TestKey(q) ==
    /\ pc = "serve"
    /\ handler[q].pc = "waiting"
    /\ LockFree(q)
    /\ lock' = q
    /\ handler' = [handler EXCEPT ![q].pc = "tested",
                       ![q].miss = IsNewKey(seen_keys[PerFrame], handler[q].key)]
    /\ UNCHANGED <<buildVars, paramVars, revision, loopVars, zoom, z, simVars, result,
                   fnVars, nevents>>

InsertKey(q) ==
    /\ pc = "serve"
    /\ handler[q].pc = "tested"
    /\ LET k  == handler[q].key
           zr == handler[q].z
       IN  IF handler[q].miss
           THEN /\ seen_keys' = [seen_keys EXCEPT
                       ![PerFrame] = AddKey(seen_keys[PerFrame], k)]
                /\ keys_by_zoom' = [keys_by_zoom EXCEPT ![PerFrame] =
                       Put(@, zr, Get(@, zr, {}) \cup {k})]
                /\ count_by_zoom' = [count_by_zoom EXCEPT ![PerFrame] =
                       Put(@, zr, Get(@, zr, 0) + 1)]
           ELSE UNCHANGED <<seen_keys, keys_by_zoom, count_by_zoom>>
    /\ handler' = [handler EXCEPT ![q] = Idle]
    /\ lock' = "none"
    /\ UNCHANGED <<buildVars, paramVars, revision, loopVars, zoom, z, tr, key,
                   frozen_range_by_stage_zoom, frozen_range_by_zoom, fresh,
                   served, result, fnVars, nevents>>

NextConc == \E q \in Producers : Arrive(q) \/ TestKey(q) \/ InsertKey(q)

SpecConc == InitConc /\ [][NextConc]_vars

\* C9: with events from several producers, no two handlers are between
\* test and insert at once, and no key is queried twice: the number of
\* queries is the number of served keys.
C9_SerializedNoDuplicates ==
    /\ \A q1, q2 \in Producers :
          handler[q1].pc = "tested" /\ handler[q2].pc = "tested" => q1 = q2
    /\ \A q \in Producers :
          handler[q].pc = "tested" /\ ~handler[q].miss =>
              handler[q].key \in seen_keys[PerFrame]
    /\ Total(PerFrame) = Cardinality(seen_keys[PerFrame])

\* Two producers hold events of the same new key; one has tested it and
\* missed, the other waits.
C9_Witness ==
    /\ handler["camera"].pc = "tested"
    /\ handler["camera"].miss
    /\ handler["gesture"].pc = "waiting"
    /\ handler["gesture"].key = handler["camera"].key
    /\ handler["camera"].key \notin seen_keys[PerFrame]
    /\ Total(PerFrame) >= 1

(***************************************************************************)
(* More properties of the ranges and keys of simulate_batch_keys.          *)
(***************************************************************************)
\* C11: the range derived for an event (approx_bounds, then
\* tile_range_for_view) has min_x <= max_x and min_y <= max_y.
C11_MinLeMax ==
    pc \in {"frames", "prefetch"} /\ tr[PerFrame] # NoRange =>
        /\ tr[PerFrame].min_x <= tr[PerFrame].max_x
        /\ tr[PerFrame].min_y <= tr[PerFrame].max_y

\* The same for viewports of positive width and height only.
MinLeMaxPositiveViewport ==
    width_px > 0 /\ height_px > 0 => C11_MinLeMax

(***************************************************************************)
(* The frame loop (lines 169-191) on a synthetic trajectory: the zoom held *)
(* at 16, the centre moved at every frame by a quarter of a pixel or by    *)
(* one tile east or west, all frames in stage 0.                           *)
(***************************************************************************)
InitScenario ==
    /\ width_px = 1512 /\ height_px = 982
    /\ pc = "scenario"
    /\ InitSim
    /\ InitOther

ScenarioFrame ==
    /\ pc = "scenario"
    /\ Len(frames) < ScenarioFrames
    /\ \E lng \in IF frames = <<>> THEN {ScenarioStart[1]}
                   ELSE {frames[Len(frames)][2] + m : m \in ScenarioMoves} :
          /\ frames' = Append(frames, <<ScenarioZoom, lng, ScenarioStart[2]>>)
          /\ HandleFrame(ScenarioZoom, lng, ScenarioStart[2], 0)
    /\ UNCHANGED <<buildVars, width_px, height_px, revision, loopVars, result, fnVars,
                   concVars>>

SpecScenario == InitScenario /\ [][ScenarioFrame]_vars

\* The distinct ranges of the frames handled so far, each derived afresh.
FrameRanges ==
    {RangeOfView(frames[i], <<width_px, height_px>>) : i \in 1..Len(frames)}

\* C12: on a trajectory at zoom 16 whose centre moves at every frame, the
\* zoom-locked policy has emitted exactly one query, and the per-frame
\* policy as many queries as there are distinct tile ranges among the
\* frames: one if no move changed the range, six at most in six frames.
C12_FixedZoomScenario ==
    pc = "scenario" /\ Len(frames) >= 1 =>
        /\ Total(ZoomLocked) = 1
        /\ Total(PerFrame) = Cardinality(FrameRanges)
        /\ Total(PerFrame) <= Len(frames)

\* Six frames, each move crossing a tile boundary: one query zoom-locked,
\* six per-frame.
C12_Witness ==
    /\ pc = "scenario"
    /\ Len(frames) = 6
    /\ Total(ZoomLocked) = 1
    /\ Total(PerFrame) = 6

\* Six frames, no move changing the range: one query under either policy.
ScenarioNoCrossing ==
    /\ pc = "scenario"
    /\ Len(frames) = 6
    /\ Total(ZoomLocked) = 1
    /\ Total(PerFrame) = 1

\* C13: under the per-frame policy the key of an event is the key of the
\* range derived from the event's own zoom, centre, viewport size and the
\* revision, whatever events came before: the same viewport state yields
\* the same key every time.
C13_KeyDeterminism ==
    pc = "scenario" /\ Len(frames) >= 1 =>
        key[PerFrame] =
            TileRangeKey(RangeOfView(frames[Len(frames)], <<width_px, height_px>>),
                         revision)

\* The centre has come back to where it was two frames earlier, after a
\* frame elsewhere with another key, and the key is the one served then.
C13_Witness ==
    /\ pc = "scenario"
    /\ Len(frames) >= 3
    /\ frames[Len(frames)] = frames[Len(frames) - 2]
    /\ FrameRanges # {tr[PerFrame]}
    /\ ~fresh[PerFrame]
    /\ key[PerFrame] \in seen_keys[PerFrame]

(***************************************************************************)
(* TileRange.key on its own, on revisions and fields whose decimal digits  *)
(* could run into each other.                                              *)
(***************************************************************************)
KeyFieldValues == {0, 1, 11}
KeyRevisions == {1, 11}
KeyInputs ==
    [rev : KeyRevisions,
     r : [z : KeyFieldValues, min_x : KeyFieldValues, max_x : KeyFieldValues,
          min_y : KeyFieldValues, max_y : KeyFieldValues]]

InitKey ==
    /\ width_px = 1512 /\ height_px = 982
    /\ pc = "key"
    /\ InitSim
    /\ frames = <<>>
    /\ fn_in \in KeyInputs
    /\ fn_out = ""
    /\ handler = [q \in Producers |-> Idle]
    /\ lock = "none"
    /\ nevents = 0
    /\ InitNoBuild

CallKey ==
    /\ pc = "key"
    /\ fn_out' = TileRangeKey(fn_in.r, fn_in.rev)
    /\ pc' = "keyed"
    /\ UNCHANGED <<buildVars, paramVars, revision, stage_idx, seg_pos, nframes, cp_idx,
                   zoom, z, simVars, result, fn_in, concVars>>

SpecKey == InitKey /\ [][CallKey]_vars

\* The key of every input.
KeysOfInputs == {<<b, TileRangeKey(b.r, b.rev)>> : b \in KeyInputs}

\* C14: the key of (revision, z, min_x, max_x, min_y, max_y), all
\* non-negative, is the key of no other such tuple: two keys are equal
\* exactly when the revisions and all five fields are.
C14_KeyInjective ==
    pc = "keyed" =>
        \A e \in KeysOfInputs : (e[2] = fn_out) <=> (e[1] = fn_in)

\* A key whose fields, read without their separators, are those of
\* another input.
C14_Witness ==
    /\ pc = "keyed"
    /\ fn_in.rev = 1
    /\ fn_in.r = [z |-> 11, min_x |-> 1, max_x |-> 11, min_y |-> 11, max_y |-> 1]
    /\ fn_out = "1:11:1-11:11-1"
    /\ Cardinality({e \in KeysOfInputs : e[2] = fn_out}) = 1
(***************************************************************************)
(* build() of build_map_parquet_cache.py, followed by the z15 tile stats   *)
(* that main() of benchmark_lod_query.py materializes from the same        *)
(* trees_fast columns.  A table is a sequence of rows (a row may repeat);  *)
(* a nullable column holds NULL or Some(v); the result of a GROUP BY is a  *)
(* set of rows, one per group.                                             *)
(***************************************************************************)
NULL == <<>>
Some(v) == <<v>>

DEFAULT_DBH == 3
TrackedZooms == 13..20
AggLevels == << <<13, 64>>, <<14, 32>> >>
CategoryEnum == {"palm", "broadleaf", "spreading", "coniferous", "columnar",
                 "ornamental"}

\* Candidate rows of the raw points table: longitude in 2^-28 turns,
\* latitude in micro-degrees.  Rows 1 and 4 are two trees at one location;
\* row 5 is on the antimeridian, row 6 north of the Mercator band; rows 7
\* and 8 lack a coordinate.
TreeRows == <<
    [tree_id |-> 1, species |-> Some("oak"), longitude |-> Some(-91297882),
     latitude |-> Some(37760000), diameter_at_breast_height |-> Some(3)],
    [tree_id |-> 2, species |-> Some("oak"), longitude |-> Some(-91305338),
     latitude |-> Some(37770000), diameter_at_breast_height |-> Some(5)],
    [tree_id |-> 3, species |-> Some("palm"), longitude |-> Some(-91640883),
     latitude |-> Some(38000000), diameter_at_breast_height |-> NULL],
    [tree_id |-> 4, species |-> NULL, longitude |-> Some(-91297882),
     latitude |-> Some(37760000), diameter_at_breast_height |-> Some(7)],
    [tree_id |-> 5, species |-> Some("elm"), longitude |-> Some(134217728),
     latitude |-> Some(0), diameter_at_breast_height |-> Some(4)],
    [tree_id |-> 6, species |-> Some("oak"), longitude |-> Some(-134217728),
     latitude |-> Some(89000000), diameter_at_breast_height |-> NULL],
    [tree_id |-> 7, species |-> Some("oak"), longitude |-> Some(-91297882),
     latitude |-> NULL, diameter_at_breast_height |-> Some(9)],
    [tree_id |-> 8, species |-> Some("palm"), longitude |-> NULL,
     latitude |-> Some(37760000), diameter_at_breast_height |-> Some(9)] >>

\* The rows of TreeRows picked by ids, in file order.
TreeTable(ids) ==
    SelectSeq(TreeRows, LAMBDA t : t.tree_id \in ids)

TreeTables == {TreeTable(ids) : ids \in SUBSET (1..Len(TreeRows))}

\* Candidate contents of species_data.json; absent file: the empty table.
SpeciesTables == {
    <<>>,
    << [species |-> Some("oak"), tree_category |-> Some("broadleaf")] >>,
    << [species |-> Some("oak"), tree_category |-> Some("broadleaf")],
       [species |-> Some("oak"), tree_category |-> Some("spreading")] >>,
    << [species |-> Some("oak"), tree_category |-> Some("shrub")],
       [species |-> Some("palm"), tree_category |-> Some(" Palm ")],
       [species |-> Some("elm"), tree_category |-> NULL] >>,
    << [species |-> Some("oak"), tree_category |-> Some("broadleaf")],
       [species |-> Some("Oak "), tree_category |-> Some("broadleaf")] >> }

\* COALESCE(v, d)
Coalesce(v, d) == IF v = NULL THEN Some(d) ELSE v

\* lower(trim(s)) on the strings of SpeciesTables
LowerTrim(s) ==
    CASE s = " Palm " -> "palm"
      [] s = "Oak "   -> "oak"
      [] OTHER        -> s

\* tree_category without the CASE: the enrichment value passed through
TreeCategoryRaw(c) == Coalesce(c, "default")[1]

\* lines 64-72
tree_category(c) ==
    LET s == LowerTrim(Coalesce(c, "default")[1])
    IN  IF s \in CategoryEnum THEN s ELSE "default"

\* line 79
latitude_clamped(lat) ==
    clamp(lat, -WEB_MERCATOR_MAX_LAT, WEB_MERCATOR_MAX_LAT)

\* floor(x_norm * pow(2, z)), lines 80 and 107: no clamp to the grid
xtile_z(lon, zt) == (lon + HalfTurn) \div (FullTurn \div 2^zt)

\* floor(y_norm * pow(2, z)), lines 81-82 and 108
ytile_z(lat, zt) == MercOfLat(latitude_clamped(lat)) \div (MercDen \div 2^zt)

\* floor of x_3857 (line 105) per longitude, of y_3857 (line 106) per
\* clamped latitude, in metres
XMetres == << <<-91297882, -13629959>>, <<-91305338, -13631072>>,
              <<-91640883, -13681166>>, <<134217728, 20037508>>,
              <<-134217728, -20037509>> >>
YMetres == << <<37760000, 4545577>>, <<37770000, 4546985>>,
              <<38000000, 4579425>>, <<0, -1>>, <<85051129, 20037508>> >>

Lookup(tab, k) == (CHOOSE e \in {tab[i] : i \in 1..Len(tab)} : e[1] = k)[2]

x_3857(lon) == Lookup(XMetres, lon)
y_3857(lat) == Lookup(YMetres, latitude_clamped(lat))

RECURSIVE Concat(_)
Concat(ss) == IF ss = <<>> THEN <<>> ELSE Head(ss) \o Concat(Tail(ss))

NoEnrichment == [species |-> NULL, tree_category |-> NULL]

\* ON t.species = se.species: NULL equals nothing
JoinMatches(t, ses) ==
    SelectSeq(ses, LAMBDA se : /\ t.species # NULL
                               /\ se.species # NULL
                               /\ t.species = se.species)

\* FROM trees t LEFT JOIN species_enrichment se ON ... (lines 83-85): one
\* row per matching enrichment row, one NULL-extended row when none matches
LeftJoin(ts, ses) ==
    Concat([i \in 1..Len(ts) |->
              LET m == JoinMatches(ts[i], ses)
              IN  IF m = <<>>
                  THEN << [t |-> ts[i], se |-> NoEnrichment] >>
                  ELSE [j \in 1..Len(m) |-> [t |-> ts[i], se |-> m[j]]]])

\* WHERE t.latitude IS NOT NULL AND t.longitude IS NOT NULL (lines 86-87)
WhereCoordinates(js) ==
    SelectSeq(js, LAMBDA j : j.t.latitude # NULL /\ j.t.longitude # NULL)

\* one row of trees_fast from one row of joined (lines 55-82, 89-122)
FastRow(j) ==
    [tree_id |-> j.t.tree_id,
     species |-> j.t.species,
     latitude |-> j.t.latitude,
     longitude |-> j.t.longitude,
     dbh |-> Coalesce(j.t.diameter_at_breast_height, DEFAULT_DBH),
     tree_category |-> tree_category(j.se.tree_category),
     x_3857 |-> x_3857(j.t.longitude[1]),
     y_3857 |-> y_3857(j.t.latitude[1]),
     xtile |-> [zt \in TrackedZooms |-> xtile_z(j.t.longitude[1], zt)],
     ytile |-> [zt \in TrackedZooms |-> ytile_z(j.t.latitude[1], zt)]]

\* CREATE OR REPLACE TABLE trees_fast AS ... (lines 51-125)
TreesFast(ts, ses) ==
    LET joined == WhereCoordinates(LeftJoin(ts, ses))
    IN  [i \in 1..Len(joined) |-> FastRow(joined[i])]

RECURSIVE SumSeq(_)
SumSeq(s) == IF s = <<>> THEN 0 ELSE Head(s) + SumSeq(Tail(s))

\* the column dbh of the rows rs
DbhColumn(rs) == [i \in 1..Len(rs) |-> rs[i].dbh]

\* AVG over a column: NULLs are skipped, NULL when nothing is left; the
\* mean is kept as the exact fraction sum / n.
Avg(vals) ==
    LET present == SelectSeq(vals, LAMBDA v : v # NULL)
    IN  IF present = <<>>
        THEN NULL
        ELSE Some([sum |-> SumSeq([i \in 1..Len(present) |-> present[i][1]]),
                   n |-> Len(present)])

\* the group key of lines 133-136: tile and grid-cell centre
AggKey(r, zt, grid) ==
    [xtile |-> r.xtile[zt],
     ytile |-> r.ytile[zt],
     gx |-> (r.x_3857 \div grid) * grid + grid \div 2,
     gy |-> (r.y_3857 \div grid) * grid + grid \div 2]

\* CREATE OR REPLACE TABLE agg_z{z}_cache AS ... GROUP BY 1, 2, 3, 4
AggCache(tf, zt, grid) ==
    { LET g == SelectSeq(tf, LAMBDA r : AggKey(r, zt, grid) = k)
      IN  [xtile |-> k.xtile, ytile |-> k.ytile, gx |-> k.gx, gy |-> k.gy,
           dbh |-> Avg(DbhColumn(g)),
           point_count |-> Len(g)]
      : k \in {AggKey(tf[i], zt, grid) : i \in 1..Len(tf)} }

\* benchmark_lod_query.py:193-200
Z15TileStats(tf) ==
    { LET g == SelectSeq(tf, LAMBDA r : <<r.xtile[15], r.ytile[15]>> = k)
      IN  [xtile |-> k[1], ytile |-> k[2], n |-> Len(g),
           avg_dbh |-> Avg(DbhColumn(g))]
      : k \in {<<tf[i].xtile[15], tf[i].ytile[15]>> : i \in 1..Len(tf)} }

InitBuild ==
    /\ width_px = 1512 /\ height_px = 982
    /\ pc = "trees_fast"
    /\ InitSim
    /\ frames = <<>>
    /\ fn_in = NoBounds
    /\ fn_out = NoRange
    /\ handler = [q \in Producers |-> Idle]
    /\ lock = "none"
    /\ nevents = 0
    /\ trees \in TreeTables
    /\ species_enrichment \in SpeciesTables
    /\ trees_fast = <<>>
    /\ agg_cache = <<>>
    /\ z15_tile_stats = {}
    /\ stdout = <<>>
    /\ raw_json_exists = TRUE
    /\ species_json_exists = (species_enrichment # <<>>)
    /\ cache_dir_made = TRUE
    /\ files = <<>>
    /\ step = 0
    /\ outcome = "running"
    /\ baseline_rows = {}
    /\ spatial = "loaded"
    /\ spatial_ok = TRUE
    /\ InitNoMerge

buildRest == <<paramVars, revision, stage_idx, seg_pos, nframes, cp_idx, zoom,
               z, simVars, result, fnVars, concVars, trees,
               species_enrichment, fileVars, benchVars, mergeVars>>

\* lines 51-125
CreateTreesFast ==
    /\ pc = "trees_fast"
    /\ trees_fast' = TreesFast(trees, species_enrichment)
    /\ pc' = "agg"
    /\ UNCHANGED <<buildRest, agg_cache, z15_tile_stats, stdout>>

\* one turn of the loop of lines 128-145
CreateAggCache ==
    /\ pc = "agg"
    /\ LET lv == AggLevels[Cardinality(DOMAIN agg_cache) + 1]
       IN  /\ agg_cache' = Put(agg_cache, lv[1], AggCache(trees_fast, lv[1], lv[2]))
           /\ pc' = IF Cardinality(DOMAIN agg_cache) + 1 = Len(AggLevels)
                    THEN "print" ELSE "agg"
    /\ UNCHANGED <<buildRest, trees_fast, z15_tile_stats, stdout>>

\* the only line build() prints
WroteMessage == "Wrote parquet cache files under public/cache"

\* line 147
PrintWrote ==
    /\ pc = "print"
    /\ stdout' = Append(stdout, WroteMessage)
    /\ pc' = "z15"
    /\ UNCHANGED <<buildRest, trees_fast, agg_cache, z15_tile_stats>>

\* benchmark_lod_query.py:193-200
MaterializeZ15 ==
    /\ pc = "z15"
    /\ z15_tile_stats' = Z15TileStats(trees_fast)
    /\ pc' = "built"
    /\ UNCHANGED <<buildRest, trees_fast, agg_cache, stdout>>

NextBuild == CreateTreesFast \/ CreateAggCache \/ PrintWrote \/ MaterializeZ15

SpecBuild == InitBuild /\ [][NextBuild]_vars

\* the sum of the second components of a set of <<row, number>> pairs
RECURSIVE SumPairs(_)
SumPairs(S) ==
    IF S = {} THEN 0
    ELSE LET e == CHOOSE x \in S : TRUE IN e[2] + SumPairs(S \ {e})

\* the input point records with non-null latitude and longitude
ValidPoints(ts) ==
    SelectSeq(ts, LAMBDA t : t.latitude # NULL /\ t.longitude # NULL)

UniqueSpecies(ses) ==
    \A i, j \in 1..Len(ses) : ses[i].species = ses[j].species => i = j

\* C15: once everything is built, in agg_z13, agg_z14 and the z15 tile
\* stats the point counts of all rows add up to the number of input points
\* that have both coordinates, whatever the enrichment table holds.
C15_AggregateConservation ==
    pc = "built" =>
        /\ \A zt \in DOMAIN agg_cache :
               SumPairs({<<r, r.point_count>> : r \in agg_cache[zt]})
                   = Len(ValidPoints(trees))
        /\ SumPairs({<<r, r.n>> : r \in z15_tile_stats}) = Len(ValidPoints(trees))

\* The same with the enrichment table restricted to one row per species.
ConservationUniqueSpecies ==
    UniqueSpecies(species_enrichment) => C15_AggregateConservation

\* the rows of trees_fast made from the point with the id tid
RowsOf(tid) == {i \in 1..Len(trees_fast) : trees_fast[i].tree_id = tid}

\* C16: once trees_fast is built, every input point with both coordinates
\* has exactly one row in it, and every row comes from such a point,
\* whatever the enrichment table holds.
C16_OneRowPerValidPoint ==
    pc \in {"agg", "print", "z15", "built"} =>
        /\ \A i \in 1..Len(trees) :
               (trees[i].latitude # NULL /\ trees[i].longitude # NULL)
                   => Cardinality(RowsOf(trees[i].tree_id)) = 1
        /\ \A j \in 1..Len(trees_fast) :
               \E i \in 1..Len(trees) :
                   /\ trees[i].tree_id = trees_fast[j].tree_id
                   /\ trees[i].latitude # NULL
                   /\ trees[i].longitude # NULL

\* The same with the enrichment table restricted to one row per species.
OneRowUniqueSpecies ==
    UniqueSpecies(species_enrichment) => C16_OneRowPerValidPoint

InGrid(v, zt) == 0 <= v /\ v <= 2^zt - 1

\* C17: every row of trees_fast has, at every tracked zoom, both tile
\* indices inside the grid of that zoom.
C17_TileContainment ==
    \A j \in 1..Len(trees_fast) : \A zt \in TrackedZooms :
        /\ InGrid(trees_fast[j].xtile[zt], zt)
        /\ InGrid(trees_fast[j].ytile[zt], zt)

\* The same for the points west of the antimeridian and strictly inside
\* the Mercator band.
ContainmentInsideBand ==
    \A j \in 1..Len(trees_fast) : \A zt \in TrackedZooms :
        (/\ trees_fast[j].longitude[1] < HalfTurn
         /\ trees_fast[j].latitude[1] < WEB_MERCATOR_MAX_LAT
         /\ trees_fast[j].latitude[1] > -WEB_MERCATOR_MAX_LAT)
        => /\ InGrid(trees_fast[j].xtile[zt], zt)
           /\ InGrid(trees_fast[j].ytile[zt], zt)

\* The antimeridian point falls one column east of the grid.
AntimeridianOutside ==
    \A j \in 1..Len(trees_fast) : \A zt \in TrackedZooms :
        trees_fast[j].longitude[1] = HalfTurn
            => trees_fast[j].xtile[zt] = 2^zt

\* A point north of the band falls one row north of the grid.
NorthOfBandOutside ==
    \A j \in 1..Len(trees_fast) : \A zt \in TrackedZooms :
        trees_fast[j].latitude[1] >= WEB_MERCATOR_MAX_LAT
            => trees_fast[j].ytile[zt] = -1

\* the magnitude the input record with the id tid came with
RawMagnitude(tid) ==
    LET i == CHOOSE k \in 1..Len(trees) : trees[k].tree_id = tid
    IN  trees[i].diameter_at_breast_height

\* the unweighted mean of the magnitudes present among the points ids,
\* NULL when none of them has one
MeanOfPresent(ids) ==
    LET present == {tid \in ids : RawMagnitude(tid) # NULL}
    IN  IF present = {}
        THEN NULL
        ELSE Some([sum |-> SumPairs({<<tid, RawMagnitude(tid)[1]>> : tid \in present}),
                   n |-> Cardinality(present)])

\* equality of two means kept as fractions, or of two NULLs
SameMean(a, b) ==
    IF a = NULL \/ b = NULL
    THEN a = b
    ELSE a[1].sum * b[1].n = b[1].sum * a[1].n

GridOf(zt) ==
    (CHOOSE lv \in {AggLevels[i] : i \in 1..Len(AggLevels)} : lv[1] = zt)[2]

\* the points of the cell an aggregate row stands for
PointsOfCell(r, zt) ==
    {trees_fast[j].tree_id : j \in {i \in 1..Len(trees_fast) :
        AggKey(trees_fast[i], zt, GridOf(zt))
            = [xtile |-> r.xtile, ytile |-> r.ytile, gx |-> r.gx, gy |-> r.gy]}}

PointsOfTile15(r) ==
    {trees_fast[j].tree_id : j \in {i \in 1..Len(trees_fast) :
        /\ trees_fast[i].xtile[15] = r.xtile
        /\ trees_fast[i].ytile[15] = r.ytile}}

\* C18: the mean of every aggregate row is the unweighted mean of the
\* magnitudes present among the points of its cell; a point that came
\* without a magnitude adds nothing to it.
C18_MeanOverPresent ==
    /\ \A zt \in DOMAIN agg_cache : \A r \in agg_cache[zt] :
           SameMean(r.dbh, MeanOfPresent(PointsOfCell(r, zt)))
    /\ \A r \in z15_tile_stats :
           SameMean(r.avg_dbh, MeanOfPresent(PointsOfTile15(r)))

\* The same when every point came with a magnitude and no species repeats
\* in the enrichment table.
MeanWhenAllPresent ==
    (/\ \A i \in 1..Len(trees) : trees[i].diameter_at_breast_height # NULL
     /\ UniqueSpecies(species_enrichment))
    => C18_MeanOverPresent

\* The three points of the scenario: magnitudes 3, 5 and none.
ScenarioPoints == TreeTable({1, 2, 3})

Tile15(j) == <<trees_fast[j].xtile[15], trees_fast[j].ytile[15]>>

Exactly(m) == Some([sum |-> m, n |-> 1])

\* C19: built from the three scenario points alone, the first two points
\* have one tile at zoom 15 and the third another, and the z15 tile stats
\* are two rows: count 2 with mean 4, and count 1 with no mean.
C19_ThreePointScenario ==
    (pc = "built" /\ trees = ScenarioPoints /\ species_enrichment = <<>>) =>
        /\ Tile15(1) = Tile15(2)
        /\ Tile15(3) # Tile15(1)
        /\ \E r1, r2 \in z15_tile_stats :
               /\ z15_tile_stats = {r1, r2}
               /\ r1.n = 2 /\ SameMean(r1.avg_dbh, Exactly(4))
               /\ r2.n = 1 /\ r2.avg_dbh = NULL

\* What the build makes of the scenario: three tiles, one point each, the
\* point without a magnitude averaged as DEFAULT_DBH.
ScenarioAsBuilt ==
    (pc = "built" /\ trees = ScenarioPoints /\ species_enrichment = <<>>) =>
        z15_tile_stats =
            {[xtile |-> 5239, ytile |-> 12667, n |-> 1, avg_dbh |-> Exactly(3)],
             [xtile |-> 5238, ytile |-> 12666, n |-> 1, avg_dbh |-> Exactly(5)],
             [xtile |-> 5197, ytile |-> 12639, n |-> 1,
              avg_dbh |-> Exactly(DEFAULT_DBH)]}

\* the input records that lack a coordinate
SkippedPoints(ts) ==
    SelectSeq(ts, LAMBDA t : t.latitude = NULL \/ t.longitude = NULL)

\* Records without a coordinate leave no trace in the outputs: no row of
\* trees_fast comes from one, and every table is what it would be had the
\* input not contained them.
NullCoordinatesExcluded ==
    /\ pc # "trees_fast" =>
           /\ \A j \in 1..Len(trees_fast) :
                  \A i \in 1..Len(SkippedPoints(trees)) :
                      trees_fast[j].tree_id # SkippedPoints(trees)[i].tree_id
           /\ trees_fast = TreesFast(ValidPoints(trees), species_enrichment)
    /\ \A zt \in DOMAIN agg_cache :
           agg_cache[zt] =
               AggCache(TreesFast(ValidPoints(trees), species_enrichment),
                        zt, GridOf(zt))
    /\ pc = "built" =>
           z15_tile_stats =
               Z15TileStats(TreesFast(ValidPoints(trees), species_enrichment))

\* Once build() has finished, its output says so if records were skipped:
\* it holds a line other than the closing one.
SkipsReported ==
    (pc \in {"z15", "built"} /\ SkippedPoints(trees) # <<>>) =>
        \E i \in 1..Len(stdout) : stdout[i] # WroteMessage

\* C20: records lacking a latitude or a longitude are left out of
\* trees_fast and of every aggregate, and the build reports that it left
\* records out.
C20_NullCoordinatesExcludedAndReported ==
    NullCoordinatesExcluded /\ SkipsReported

\* the enrichment rows of the species sp (none for a NULL species)
EnrichmentOf(sp) ==
    {species_enrichment[i] : i \in {k \in 1..Len(species_enrichment) :
        sp # NULL /\ species_enrichment[k].species = sp}}

\* the category a row joined to the enrichment row se has to carry
ExpectedCategory(se) ==
    IF se.tree_category = NULL THEN "default"
    ELSE IF LowerTrim(se.tree_category[1]) \in CategoryEnum
         THEN LowerTrim(se.tree_category[1])
         ELSE "default"

\* C21: the category of every row of trees_fast is one of the six enum
\* values or 'default'; it is 'default' when the species has no enrichment
\* row, and otherwise it is what an enrichment row of the species gives:
\* its trimmed, lower-cased category if that is in the enum, else 'default'.
C21_CategoryNormalized ==
    \A j \in 1..Len(trees_fast) :
        /\ trees_fast[j].tree_category \in CategoryEnum \cup {"default"}
        /\ IF EnrichmentOf(trees_fast[j].species) = {}
           THEN trees_fast[j].tree_category = "default"
           ELSE \E se \in EnrichmentOf(trees_fast[j].species) :
                    trees_fast[j].tree_category = ExpectedCategory(se)

\* One build with an out-of-enum category ('shrub'), a padded and
\* capitalised one (' Palm '), a species without a row and a NULL category.
C21_Witness ==
    /\ pc = "built"
    /\ trees = TreeTable({1, 3, 4, 5})
    /\ Len(species_enrichment) = 3
    /\ [j \in 1..Len(trees_fast) |-> trees_fast[j].tree_category]
           = <<"default", "palm", "default", "default">>

(***************************************************************************)
(* build() as a sequence of statements acting on the disk: which output    *)
(* files a run writes, and where it stops when a statement raises.  The    *)
(* contents of the tables play no part here.                               *)
(***************************************************************************)
OutputFiles == {"trees.parquet", "species.parquet", "trees_fast.parquet",
                "agg_z13.parquet", "agg_z14.parquet"}

\* The statements of build() after the check of lines 18-19, in order.
BuildSteps == <<
    [op |-> "mkdir",   arg |-> "cache"],                 \* 21
    [op |-> "execute", arg |-> "trees"],                 \* 23-26
    [op |-> "execute", arg |-> "species_enrichment"],    \* 28-44
    [op |-> "copy",    arg |-> "trees.parquet"],         \* 47
    [op |-> "copy",    arg |-> "species.parquet"],       \* 48
    [op |-> "execute", arg |-> "trees_fast"],            \* 51-125
    [op |-> "copy",    arg |-> "trees_fast.parquet"],    \* 126
    [op |-> "execute", arg |-> "agg_z13_cache"],         \* 129-142
    [op |-> "copy",    arg |-> "agg_z13.parquet"],       \* 143-145
    [op |-> "execute", arg |-> "agg_z14_cache"],         \* 129-142
    [op |-> "copy",    arg |-> "agg_z14.parquet"],       \* 143-145
    [op |-> "print",   arg |-> "Wrote"] >>               \* 147

InitFiles ==
    /\ width_px = 1512 /\ height_px = 982
    /\ pc = "build"
    /\ InitSim
    /\ frames = <<>>
    /\ fn_in = NoBounds
    /\ fn_out = NoRange
    /\ handler = [q \in Producers |-> Idle]
    /\ lock = "none"
    /\ nevents = 0
    /\ trees = <<>>
    /\ species_enrichment = <<>>
    /\ trees_fast = <<>>
    /\ agg_cache = <<>>
    /\ z15_tile_stats = {}
    /\ stdout = <<>>
    /\ raw_json_exists \in BOOLEAN
    /\ species_json_exists \in BOOLEAN
    /\ cache_dir_made = FALSE
    /\ files \in [OutputFiles -> {"missing", "stale"}]
    /\ step = 0
    /\ outcome = "running"
    /\ baseline_rows = {}
    /\ spatial = "loaded"
    /\ spatial_ok = TRUE
    /\ InitNoMerge

filesRest == <<paramVars, revision, pc, stage_idx, seg_pos, nframes, cp_idx,
               zoom, z, simVars, result, fnVars, concVars, trees,
               species_enrichment, trees_fast, agg_cache, z15_tile_stats,
               raw_json_exists, species_json_exists, benchVars, mergeVars>>

\* build() without the check of lines 18-19
CheckRawJsonSkipped ==
    /\ pc = "build" /\ outcome = "running" /\ step = 0
    /\ step' = 1
    /\ UNCHANGED <<filesRest, cache_dir_made, files, outcome, stdout>>

\* lines 18-19: if not RAW_JSON.exists(): raise SystemExit(...)
CheckRawJson ==
    /\ pc = "build" /\ outcome = "running" /\ step = 0
    /\ IF raw_json_exists
       THEN step' = 1 /\ UNCHANGED outcome
       ELSE outcome' = "SystemExit" /\ UNCHANGED step
    /\ UNCHANGED <<filesRest, cache_dir_made, files, stdout>>

Running(o) ==
    /\ pc = "build" /\ outcome = "running"
    /\ step \in 1..Len(BuildSteps)
    /\ BuildSteps[step].op = o

Advance ==
    /\ step' = step + 1
    /\ outcome' = IF step = Len(BuildSteps) THEN "returned" ELSE "running"

\* line 21
MakeCacheDir ==
    /\ Running("mkdir")
    /\ cache_dir_made' = TRUE
    /\ Advance
    /\ UNCHANGED <<filesRest, files, stdout>>

\* a con.execute that creates a table
Execute ==
    /\ Running("execute")
    /\ Advance
    /\ UNCHANGED <<filesRest, cache_dir_made, files, stdout>>

\* a con.execute("COPY ... TO '<file>' (FORMAT PARQUET)")
CopyTo ==
    /\ Running("copy")
    /\ files' = [files EXCEPT ![BuildSteps[step].arg] = "new"]
    /\ Advance
    /\ UNCHANGED <<filesRest, cache_dir_made, stdout>>

\* line 147
PrintDone ==
    /\ Running("print")
    /\ stdout' = Append(stdout, WroteMessage)
    /\ Advance
    /\ UNCHANGED <<filesRest, cache_dir_made, files>>

\* mkdir, a statement of the database or a COPY raises: nothing in build()
\* catches it, the run ends there and the statement has no effect.
Raise ==
    /\ \/ Running("mkdir")
       \/ Running("execute")
       \/ Running("copy")
    /\ outcome' = "raised"
    /\ UNCHANGED <<filesRest, cache_dir_made, files, step, stdout>>

NextFiles ==
    CheckRawJson \/ MakeCacheDir \/ Execute \/ CopyTo \/ PrintDone \/ Raise

SpecFiles == InitFiles /\ [][NextFiles]_vars

\* C22: when the raw input file is absent, the run ends at the check with
\* SystemExit, having made no directory and written no file.
C22_MissingInputHardError ==
    (~raw_json_exists /\ (step # 0 \/ outcome # "running")) =>
        /\ outcome = "SystemExit"
        /\ step = 0
        /\ ~cache_dir_made
        /\ \A f \in OutputFiles : files[f] # "new"
        /\ stdout = <<>>

C22_Witness ==
    /\ ~raw_json_exists
    /\ outcome = "SystemExit"
    /\ \E f \in OutputFiles : files[f] = "stale"

\* C23: a run that ended in an error has not left the output files partly
\* written: either none of them is new or all of them are.
C23_AllOrNothing ==
    outcome = "raised" =>
        \/ \A f \in OutputFiles : files[f] # "new"
        \/ \A f \in OutputFiles : files[f] = "new"

\* A run that returns has written all five files and printed its line.
ReturnedAllWritten ==
    outcome = "returned" =>
        /\ \A f \in OutputFiles : files[f] = "new"
        /\ stdout = <<WroteMessage>>

(***************************************************************************)
(* main() of benchmark_lod_query.py from line 121 on: the tables are       *)
(* loaded, each benchmark runs its query and prints one line.              *)
(***************************************************************************)
ZOOM == 15

\* floor(2^28 * (x_3857 + WEB_MERCATOR_MAX) / WEB_MERCATOR_WORLD) per
\* longitude and floor(2^28 * (WEB_MERCATOR_MAX - y_3857) /
\* WEB_MERCATOR_WORLD) per clamped latitude: the positions the baseline
\* query divides into tiles (lines 127-134)
BaselineX == << <<-91297882, 42919846>>, <<-91305338, 42912390>>,
                <<-91640883, 42576845>>, <<134217728, 268435456>>,
                <<-134217728, 0>> >>
BaselineY == << <<37760000, 103769978>>, <<37770000, 103760546>>,
                <<38000000, 103543249>>, <<0, 134217728>>,
                <<85051129, -1>> >>

baseline_xtile(lon) == Lookup(BaselineX, lon) \div (FullTurn \div 2^ZOOM)
baseline_ytile(lat) ==
    Lookup(BaselineY, latitude_clamped(lat)) \div (MercDen \div 2^ZOOM)

\* ON lower(trim(t.species)) = lower(trim(se.species)), line 147
BaselineMatches(t, ses) ==
    SelectSeq(ses, LAMBDA se : /\ t.species # NULL
                               /\ se.species # NULL
                               /\ LowerTrim(t.species[1]) = LowerTrim(se.species[1]))

\* the CTE pts of lines 125-149
BaselinePts(ts, ses) ==
    LET joined == Concat([i \in 1..Len(ts) |->
                      LET m == BaselineMatches(ts[i], ses)
                      IN  IF m = <<>>
                          THEN << [t |-> ts[i], se |-> NoEnrichment] >>
                          ELSE [j \in 1..Len(m) |-> [t |-> ts[i], se |-> m[j]]]])
        kept == WhereCoordinates(joined)
    IN  [i \in 1..Len(kept) |->
            [xtile |-> baseline_xtile(kept[i].t.longitude[1]),
             ytile |-> baseline_ytile(kept[i].t.latitude[1]),
             dbh |-> Coalesce(kept[i].t.diameter_at_breast_height, DEFAULT_DBH),
             category |-> tree_category(kept[i].se.tree_category)]]

\* SELECT xtile, ytile, COUNT(*) AS n, AVG(dbh) AS avg_dbh FROM pts
\* GROUP BY 1, 2 (lines 150-152)
BaselineQuery(ts, ses) ==
    LET pts == BaselinePts(ts, ses)
    IN  { LET g == SelectSeq(pts, LAMBDA r : <<r.xtile, r.ytile>> = k)
          IN  [xtile |-> k[1], ytile |-> k[2], n |-> Len(g),
               avg_dbh |-> Avg(DbhColumn(g))]
          : k \in {<<pts[i].xtile, pts[i].ytile>> : i \in 1..Len(pts)} }

BasicLabels == <<"rows",
                 "baseline_z15_detailed_batch_ms",
                 "precompute_trees_fast_ms",
                 "precomputed_global_z15_ms",
                 "precomputed_6x6_z17_ms",
                 "materialize_z15_tile_stats_ms",
                 "materialized_lookup_ms">>

MvtLabels == <<"mvt_precomputed_global_z15_ms",
               "mvt_precomputed_6x6_z15_ms",
               "materialize_z15_features_ms",
               "mvt_from_features_6x6_z15_ms",
               "materialize_z15_mvt_tiles_ms",
               "materialized_mvt_lookup_6x6_ms">>

SkipMessage == "mvt_precomputed_global_z15_ms skipped (spatial extension unavailable)"

\* What the machine does on LOAD spatial / INSTALL spatial: LOAD works;
\* LOAD works only after INSTALL; INSTALL works but LOAD still fails;
\* INSTALL fails.
SpatialStates == {"loaded", "installable", "broken", "unavailable"}

InitBench ==
    /\ width_px = 1512 /\ height_px = 982
    /\ pc = "bench"
    /\ InitSim
    /\ frames = <<>>
    /\ fn_in = NoBounds
    /\ fn_out = NoRange
    /\ handler = [q \in Producers |-> Idle]
    /\ lock = "none"
    /\ nevents = 0
    /\ trees \in TreeTables
    /\ species_enrichment \in SpeciesTables
    /\ trees_fast = <<>>
    /\ agg_cache = <<>>
    /\ z15_tile_stats = {}
    /\ stdout = <<>>
    /\ raw_json_exists = TRUE
    /\ species_json_exists = (species_enrichment # <<>>)
    /\ cache_dir_made = FALSE
    /\ files = <<>>
    /\ step = 1
    /\ outcome = "running"
    /\ baseline_rows = {}
    /\ spatial \in SpatialStates
    /\ spatial_ok = TRUE
    /\ InitNoMerge

benchRest == <<paramVars, revision, pc, stage_idx, seg_pos, nframes, cp_idx,
               zoom, z, simVars, result, fnVars, concVars, trees,
               species_enrichment, agg_cache, raw_json_exists,
               species_json_exists, cache_dir_made, files, spatial, mergeVars>>

AtBasic(label) ==
    /\ pc = "bench" /\ outcome = "running"
    /\ step \in 1..Len(BasicLabels)
    /\ BasicLabels[step] = label

Report(label) ==
    /\ stdout' = Append(stdout, label)
    /\ step' = step + 1

\* lines 121-122, 161-189, 204-220: a query is run and its line printed
BenchQuery ==
    /\ \E label \in {"rows", "precomputed_global_z15_ms",
                     "precomputed_6x6_z17_ms", "materialized_lookup_ms"} :
           AtBasic(label) /\ Report(label)
    /\ UNCHANGED <<benchRest, trees_fast, z15_tile_stats, baseline_rows,
                   spatial_ok, outcome>>

\* lines 124-156
BenchBaseline ==
    /\ AtBasic("baseline_z15_detailed_batch_ms")
    /\ baseline_rows' = BaselineQuery(trees, species_enrichment)
    /\ Report("baseline_z15_detailed_batch_ms")
    /\ UNCHANGED <<benchRest, trees_fast, z15_tile_stats, spatial_ok, outcome>>

\* lines 158-159: build_precomputed
BenchPrecompute ==
    /\ AtBasic("precompute_trees_fast_ms")
    /\ trees_fast' = TreesFast(trees, species_enrichment)
    /\ Report("precompute_trees_fast_ms")
    /\ UNCHANGED <<benchRest, z15_tile_stats, baseline_rows, spatial_ok, outcome>>

\* lines 191-202
BenchMaterialize ==
    /\ AtBasic("materialize_z15_tile_stats_ms")
    /\ z15_tile_stats' = Z15TileStats(trees_fast)
    /\ Report("materialize_z15_tile_stats_ms")
    /\ UNCHANGED <<benchRest, trees_fast, baseline_rows, spatial_ok, outcome>>

\* the try of lines 223-230 without its except branches
LoadSpatialUnguarded ==
    /\ pc = "bench" /\ outcome = "running"
    /\ step = Len(BasicLabels) + 1
    /\ spatial_ok' = TRUE
    /\ step' = step + 1
    /\ UNCHANGED <<benchRest, trees_fast, z15_tile_stats, baseline_rows,
                   stdout, outcome>>

\* lines 222-230: LOAD; on an exception INSTALL and LOAD; on an exception
\* of either spatial_ok = False
LoadSpatial ==
    /\ pc = "bench" /\ outcome = "running"
    /\ step = Len(BasicLabels) + 1
    /\ spatial_ok' = (spatial \in {"loaded", "installable"})
    /\ step' = step + 1
    /\ UNCHANGED <<benchRest, trees_fast, z15_tile_stats, baseline_rows,
                   stdout, outcome>>

\* lines 232-381: one MVT benchmark; its ST_ functions exist only with the
\* extension loaded, otherwise the statement raises
BenchMvt ==
    /\ pc = "bench" /\ outcome = "running"
    /\ step \in (Len(BasicLabels) + 2)..(Len(BasicLabels) + 1 + Len(MvtLabels))
    /\ spatial_ok
    /\ IF spatial \in {"loaded", "installable"}
       THEN /\ stdout' = Append(stdout, MvtLabels[step - Len(BasicLabels) - 1])
            /\ step' = step + 1
            /\ outcome' = IF step = Len(BasicLabels) + 1 + Len(MvtLabels)
                          THEN "returned" ELSE "running"
       ELSE /\ outcome' = "raised"
            /\ UNCHANGED <<stdout, step>>
    /\ UNCHANGED <<benchRest, trees_fast, z15_tile_stats, baseline_rows,
                   spatial_ok>>

\* lines 382-383
BenchSkipMvt ==
    /\ pc = "bench" /\ outcome = "running"
    /\ step = Len(BasicLabels) + 2
    /\ ~spatial_ok
    /\ stdout' = Append(stdout, SkipMessage)
    /\ outcome' = "returned"
    /\ UNCHANGED <<benchRest, trees_fast, z15_tile_stats, baseline_rows,
                   spatial_ok, step>>

NextBench ==
    \/ BenchQuery \/ BenchBaseline \/ BenchPrecompute \/ BenchMaterialize
    \/ LoadSpatial \/ BenchMvt \/ BenchSkipMvt

SpecBench == InitBench /\ [][NextBench]_vars

\* C24: on a machine where the spatial extension can neither be loaded nor
\* installed and loaded, the run raises nothing and prints no MVT line, and
\* when it returns it has printed the line of every basic benchmark, in
\* order, followed by the line reporting the skip.
C24_SpatialDegradation ==
    (pc = "bench" /\ spatial \in {"broken", "unavailable"}) =>
        /\ outcome # "raised"
        /\ \A i \in 1..Len(stdout) : \A k \in 1..Len(MvtLabels) :
               stdout[i] # MvtLabels[k]
        /\ step <= Len(BasicLabels) + 2
        /\ outcome = "returned" => stdout = BasicLabels \o <<SkipMessage>>

C24_Witness ==
    /\ pc = "bench"
    /\ spatial = "unavailable"
    /\ ~spatial_ok
    /\ outcome = "returned"
    /\ stdout[Len(stdout)] = SkipMessage
    /\ z15_tile_stats # {}

\* With the extension at hand the run prints all thirteen lines.
SpatialRunComplete ==
    (pc = "bench" /\ spatial \in {"loaded", "installable"}
                  /\ outcome = "returned") =>
        stdout = BasicLabels \o MvtLabels

\* two query results hold the same (xtile, ytile, count, mean) rows
SameRows(a, b) ==
    /\ \A r \in a : \E s \in b :
           /\ r.xtile = s.xtile /\ r.ytile = s.ytile /\ r.n = s.n
           /\ SameMean(r.avg_dbh, s.avg_dbh)
    /\ \A s \in b : \E r \in a :
           /\ r.xtile = s.xtile /\ r.ytile = s.ytile /\ r.n = s.n
           /\ SameMean(r.avg_dbh, s.avg_dbh)

\* the precomputed table has been built and queried (lines 158-167)
PrecomputedQueried ==
    pc = "bench" /\ step > 4

\* C25: on the same input tables the baseline query and the z15
\* aggregation over trees_fast return the same rows.
C25_BaselineEqualsPrecomputed ==
    PrecomputedQueried => SameRows(baseline_rows, Z15TileStats(trees_fast))

\* every species of both tables is already trimmed and lower-cased
SpeciesNormalized ==
    /\ \A i \in 1..Len(trees) :
           trees[i].species # NULL
               => LowerTrim(trees[i].species[1]) = trees[i].species[1]
    /\ \A i \in 1..Len(species_enrichment) :
           species_enrichment[i].species # NULL
               => LowerTrim(species_enrichment[i].species[1])
                      = species_enrichment[i].species[1]

\* The two results agree when the species strings need no normalising.
EquivalentWhenNormalized ==
    SpeciesNormalized => C25_BaselineEqualsPrecomputed

(***************************************************************************)
(* lonlat_to_world_px followed by world_px_to_lonlat on one point.  The    *)
(* model keeps world coordinates in whole pixels, so a point comes back    *)
(* to within the size of a pixel of the world at that zoom; its integers   *)
(* hold the worlds of zoom 13.0 to 21.9, and its latitudes are those of    *)
(* the densely tabulated part of MercKnots.                                *)
(***************************************************************************)
TripZooms == {130, CHECKPOINTS[7], CHECKPOINTS[5], CHECKPOINTS[1], 210}
TripLons == {-HalfTurn, -91297882, -1, 0, 91305338, HalfTurn - 1}
TripLats == {37750000, 37754321, 37760000, 37765000, 37770000, 37784321,
             37790000, 37799999}

InitTrip ==
    /\ width_px = 1512 /\ height_px = 982
    /\ pc = "trip"
    /\ InitSim
    /\ frames = <<>>
    /\ fn_in \in [lon : TripLons, lat : TripLats, zm : TripZooms]
    /\ fn_out = <<>>
    /\ handler = [q \in Producers |-> Idle]
    /\ lock = "none"
    /\ nevents = 0
    /\ InitNoBuild

RoundTrip ==
    /\ pc = "trip"
    /\ LET p == lonlat_to_world_px(fn_in.lon, fn_in.lat, fn_in.zm)
       IN  fn_out' = world_px_to_lonlat(p[1], p[2], fn_in.zm)
    /\ pc' = "tripped"
    /\ UNCHANGED <<buildVars, paramVars, revision, stage_idx, seg_pos, nframes,
                   cp_idx, zoom, z, simVars, result, fn_in, concVars>>

SpecTrip == InitTrip /\ [][RoundTrip]_vars

\* the size of a pixel of the world at zoom zm, in 2^-28 turns, rounded up
PixelUnits(zm) == WorldShift(zm) \div PowScale

Dist(a, b) == IF a >= b THEN a - b ELSE b - a

C27_CounterConsistency ==
    pc \in {"frames", "prefetch", "return", "done"} =>
        \A p \in Policies :
            /\ DOMAIN count_by_zoom[p] = DOMAIN keys_by_zoom[p]
            /\ \A zr \in DOMAIN count_by_zoom[p] :
                   /\ count_by_zoom[p][zr] = Cardinality(keys_by_zoom[p][zr])
                   /\ zr >= MIN_DETAIL_ZOOM
            /\ \A z1, z2 \in DOMAIN keys_by_zoom[p] :
                   z1 # z2 => keys_by_zoom[p][z1] \cap keys_by_zoom[p][z2] = {}
            /\ UNION {keys_by_zoom[p][zr] : zr \in DOMAIN keys_by_zoom[p]}
                   = seen_keys[p]
            /\ result[p] # NoResult =>
                   /\ result[p].total = Cardinality(seen_keys[p])
                   /\ \A zr \in DOMAIN result[p].by_zoom : zr >= MIN_DETAIL_ZOOM

\* A finished run that passed zooms below MIN_DETAIL_ZOOM and reports
\* several keys at several zooms.
C27_Witness ==
    /\ pc = "done"
    /\ z < MIN_DETAIL_ZOOM
    /\ Cardinality(DOMAIN result[PerFrame].by_zoom) >= 2
    /\ \E zr \in DOMAIN result[PerFrame].by_zoom : result[PerFrame].by_zoom[zr] >= 2
    /\ result[PerFrame].total = Cardinality(seen_keys[PerFrame])

\* C28: under every policy, a prefetch call for a checkpoint of rounded
\* zoom MIN_DETAIL_ZOOM or more computes a key that is already in
\* seen_keys, and so leaves seen_keys and the counts as they were.
C28_PrefetchEmitsNothing ==
    [][pc = "prefetch" /\ PyRound(CHECKPOINTS[cp_idx]) >= MIN_DETAIL_ZOOM =>
           \A p \in Policies :
               /\ key'[p] \in seen_keys[p]
               /\ ~fresh'[p]
               /\ seen_keys'[p] = seen_keys[p]
               /\ count_by_zoom'[p] = count_by_zoom[p]]_vars

\* After the prefetch call of a detail-zoom checkpoint whose key under
\* the zoom-locked policy is not the key of the current view: nothing new.
C28_Witness ==
    /\ pc = "prefetch"
    /\ cp_idx > 2
    /\ zoom = CHECKPOINTS[cp_idx - 1]
    /\ z >= MIN_DETAIL_ZOOM
    /\ key[ZoomLocked] # key[PerFrame]
    /\ key[StageLocked] \in seen_keys[StageLocked]
    /\ \A p \in Policies : ~fresh[p]

\* C29: the run with both flags set is, in every state, the run with the
\* per-zoom flag alone: the same range, key and verdict for each frame and
\* prefetch, the same seen_keys, per-zoom keys and counts, the same
\* per-zoom frozen map and the same result; and its per-stage frozen map
\* stays empty.
C29_BothIsZoomLocked ==
    /\ tr[BothLocked] = tr[ZoomLocked]
    /\ key[BothLocked] = key[ZoomLocked]
    /\ fresh[BothLocked] = fresh[ZoomLocked]
    /\ seen_keys[BothLocked] = seen_keys[ZoomLocked]
    /\ keys_by_zoom[BothLocked] = keys_by_zoom[ZoomLocked]
    /\ count_by_zoom[BothLocked] = count_by_zoom[ZoomLocked]
    /\ frozen_range_by_zoom[BothLocked] = frozen_range_by_zoom[ZoomLocked]
    /\ result[BothLocked] = result[ZoomLocked]
    /\ DOMAIN frozen_range_by_stage_zoom[BothLocked] = {}

\* A finished run in which the per-stage flag alone froze ranges and gave
\* another result than the per-zoom flag, while both flags gave the
\* per-zoom result.
C29_Witness ==
    /\ pc = "done"
    /\ DOMAIN frozen_range_by_stage_zoom[StageLocked] # {}
    /\ result[StageLocked] # result[ZoomLocked]
    /\ result[BothLocked] = result[ZoomLocked]
    /\ result[BothLocked].total >= 2

(***************************************************************************)
(* tree_enrichment.py, the main block: which species are enriched in a     *)
(* run and how the new rows are merged with the rows of the enrichment     *)
(* file.  A row is modelled by its species, by whether its core columns    *)
(* are all non-null (the SQL expression of lines 849-860 and 1046-1057)    *)
(* and by enriched_at: 0 for a row written by an earlier run, 1 for a row  *)
(* of this run.                                                            *)
(***************************************************************************)
\* The species of tree_info.parquet, in the order of "ORDER BY species".
SpeciesOrder == <<"Acer", "Betula", "Cedrus">>

\* the rows of line 1028's table kept by lines 1069-1074
KeepExisting(tbl, done) ==
    IF done = {} THEN tbl
    ELSE SelectSeq(tbl, LAMBDA r : r.species = NULL \/ r.species[1] \notin done)

\* Rows an earlier run may have left in the enrichment file.
OldRows ==
    [species : {NULL, Some(SpeciesOrder[1]), Some(SpeciesOrder[2])},
     core : BOOLEAN, enriched_at : {0}]

\* Enrichment files of at most two rows (a species may be repeated).
EnrichmentFiles ==
    {<<>>} \cup {<<r>> : r \in OldRows} \cup {<<r, s>> : r \in OldRows, s \in OldRows}

\* The sorted lists get_all_species() may return (lines 820-833).
SpeciesLists ==
    {SelectSeq(SpeciesOrder, LAMBDA s : s \in S) : S \in SUBSET {SpeciesOrder[i] : i \in 1..Len(SpeciesOrder)}}

\* --limit: absent, or N
Limits == {NULL, Some(1)}

\* s[:n]
Take(s, n) == SubSeq(s, 1, IF n < Len(s) THEN n ELSE Len(s))

\* {row["species"] for row in rows}, the rows of a table with a species
SpeciesOf(rows) ==
    {rows[i].species[1] : i \in {j \in 1..Len(rows) : rows[j].species # NULL}}

InitMerge ==
    /\ width_px = 1512 /\ height_px = 982
    /\ pc = "get_already_enriched"
    /\ InitSim
    /\ frames = <<>>
    /\ fn_in = NoBounds
    /\ fn_out = NoRange
    /\ handler = [q \in Producers |-> Idle]
    /\ lock = "none"
    /\ nevents = 0
    /\ trees = <<>>
    /\ species_enrichment = <<>>
    /\ trees_fast = <<>>
    /\ agg_cache = <<>>
    /\ z15_tile_stats = {}
    /\ stdout = <<>>
    /\ raw_json_exists = TRUE
    /\ species_json_exists = FALSE
    /\ cache_dir_made = FALSE
    /\ files = <<>>
    /\ step = 0
    /\ outcome = "running"
    /\ baseline_rows = {}
    /\ spatial = "loaded"
    /\ spatial_ok = TRUE
    /\ enrichment_parquet \in EnrichmentFiles
    /\ tree_info \in SpeciesLists
    /\ limit \in Limits
    /\ already_enriched = {}
    /\ complete_enriched = {}
    /\ to_process = <<>>
    /\ q_idx = 1
    /\ new_rows = <<>>
    /\ existing = NULL
    /\ merged = <<>>
    /\ emitted_to = ""

mergeRest == <<paramVars, revision, stage_idx, seg_pos, nframes, cp_idx, zoom,
               z, simVars, result, fnVars, concVars, trees,
               species_enrichment, trees_fast, agg_cache, z15_tile_stats,
               stdout, fileVars, benchVars, enrichment_parquet, tree_info,
               limit>>

\* lines 837-873: the read succeeds, or raises and the sets are empty
get_already_enriched ==
    /\ pc = "get_already_enriched"
    /\ \E ok \in BOOLEAN :
          IF ok
          THEN /\ already_enriched' = SpeciesOf(enrichment_parquet)
               /\ complete_enriched' =
                      SpeciesOf(SelectSeq(enrichment_parquet, LAMBDA r : r.core))
          ELSE /\ already_enriched' = {}
               /\ complete_enriched' = {}
    /\ pc' = "get_all_species"
    /\ UNCHANGED <<mergeRest, to_process, q_idx, new_rows, existing, merged,
                   emitted_to>>

\* lines 971-975
SelectToProcess ==
    /\ pc = "get_all_species"
    /\ LET todo == SelectSeq(tree_info, LAMBDA s : s \notin complete_enriched)
       IN  to_process' = IF limit = NULL THEN todo ELSE Take(todo, limit[1])
    /\ q_idx' = 1
    /\ pc' = "enrich"
    /\ UNCHANGED <<mergeRest, already_enriched, complete_enriched, new_rows,
                   existing, merged, emitted_to>>

\* lines 986-991: enrich_species() returned None
EnrichNone ==
    /\ pc = "enrich"
    /\ q_idx <= Len(to_process)
    /\ q_idx' = q_idx + 1
    /\ UNCHANGED <<mergeRest, pc, already_enriched, complete_enriched,
                   to_process, new_rows, existing, merged, emitted_to>>

\* lines 986-1016: enrich_species() returned an enrichment
EnrichRow ==
    /\ pc = "enrich"
    /\ q_idx <= Len(to_process)
    /\ \E c \in BOOLEAN :
          new_rows' = Append(new_rows,
              [species |-> Some(to_process[q_idx]), core |-> c, enriched_at |-> 1])
    /\ q_idx' = q_idx + 1
    /\ UNCHANGED <<mergeRest, pc, already_enriched, complete_enriched,
                   to_process, existing, merged, emitted_to>>

\* lines 1023-1066: the second read of the file; None when it raises
ReadExisting ==
    /\ pc = "enrich"
    /\ q_idx > Len(to_process)
    /\ IF already_enriched # {}
       THEN \E ok \in BOOLEAN :
                existing' = IF ok THEN Some(enrichment_parquet) ELSE NULL
       ELSE existing' = NULL
    /\ pc' = "merge"
    /\ UNCHANGED <<mergeRest, already_enriched, complete_enriched, to_process,
                   q_idx, new_rows, merged, emitted_to>>

\* lines 1021, 1068-1092
MergeRows ==
    /\ pc = "merge"
    /\ merged' = IF existing # NULL
                 THEN KeepExisting(existing[1], SpeciesOf(new_rows)) \o new_rows
                 ELSE new_rows
    /\ pc' = "emit"
    /\ UNCHANGED <<mergeRest, already_enriched, complete_enriched, to_process,
                   q_idx, new_rows, existing, emitted_to>>

\* lines 1096-1100
EmitMerged ==
    /\ pc = "emit"
    /\ emitted_to' = IF limit # NULL THEN "file" ELSE "stdout"
    /\ pc' = "emitted"
    /\ UNCHANGED <<mergeRest, already_enriched, complete_enriched, to_process,
                   q_idx, new_rows, existing, merged>>

NextMerge ==
    \/ get_already_enriched
    \/ SelectToProcess
    \/ EnrichNone
    \/ EnrichRow
    \/ ReadExisting
    \/ MergeRows
    \/ EmitMerged

SpecMerge == InitMerge /\ [][NextMerge]_vars

\* the rows of a table for one species
RowsFor(tbl, s) == SelectSeq(tbl, LAMBDA r : r.species = Some(s))

\* no species twice in the enrichment file
FileUnique ==
    \A s \in SpeciesOf(enrichment_parquet) : Len(RowsFor(enrichment_parquet, s)) = 1

\* What the merge is to emit for the species the run knows as enriched
\* and for those it processed.
MergedAsIntended ==
    /\ \A s \in SpeciesOf(new_rows) :
           /\ Len(RowsFor(merged, s)) = 1
           /\ RowsFor(merged, s) = RowsFor(new_rows, s)
    /\ \A s \in already_enriched \ SpeciesOf(new_rows) :
           RowsFor(merged, s) = RowsFor(enrichment_parquet, s)
    /\ \A s \in SpeciesOf(merged) : Len(RowsFor(merged, s)) = 1

\* C30: when the enrichment file holds no species twice, the emitted table
\* holds for every species processed successfully in the run exactly its
\* new row, for every other species the run found enriched exactly its
\* old row, and no species twice.
C30_OneRowPerSpecies ==
    pc = "emitted" /\ FileUnique => MergedAsIntended

\* Both reads of the enrichment file succeeded.
ReadsSucceeded ==
    /\ already_enriched = SpeciesOf(enrichment_parquet)
    /\ already_enriched # {} => existing # NULL

MergedWhenReadsSucceed ==
    pc = "emitted" /\ FileUnique /\ ReadsSucceeded => MergedAsIntended

\* A run that re-enriched one species with success, one without, added no
\* duplicate and kept the other's old row.
MergedReplacesAndKeeps ==
    /\ pc = "emitted"
    /\ FileUnique /\ ReadsSucceeded
    /\ Len(enrichment_parquet) = 2
    /\ Len(to_process) = 2
    /\ Len(new_rows) = 1
    /\ Len(merged) = 2
    /\ merged[1].enriched_at = 0
    /\ merged[2].enriched_at = 1

=============================================================================
